---------------------------- MODULE Spec2Model ----------------------------
(***************************************************************************)
(* A model of the logo logging package: the template compiler (extract),   *)
(* the formatters, and the console and rolling file appenders.             *)
(*                                                                         *)
(* Text is modelled as a sequence of one-character strings, so that the    *)
(* compiler can index it the way the Go code indexes a string's bytes.     *)
(***************************************************************************)
EXTENDS Integers, Sequences, FiniteSets, Bags, TLC

(***************************************************************************)
(* Sequence helpers.                                                       *)
(***************************************************************************)
Slice(s, lo, hi) ==
    \* the Go slice s[lo:hi], lo and hi being 0-based offsets
    IF hi <= lo THEN << >> ELSE SubSeq(s, lo + 1, hi)

Min(a, b) ==
    IF a <= b THEN a ELSE b

Range(s) ==
    { s[k] : k \in DOMAIN s }

(***************************************************************************)
(* Severities (log.go).                                                    *)
(***************************************************************************)
debug == 0
info == 1
warn == 2
errorMsg == 3
panicMsg == 4
fatal == 5

Severities ==
    debug .. fatal

severityName ==
    << <<"D","E","B","U","G">>,
       <<"I","N","F","O">>,
       <<"W","A","R","N">>,
       <<"E","R","R","O","R">>,
       <<"P","A","N","I","C">>,
       <<"F","A","T","A","L">> >>

LowerLetters ==
    <<"a","b","c","d","e","f","g","h","i","j","k","l","m",
      "n","o","p","q","r","s","t","u","v","w","x","y","z">>

UpperLetters ==
    <<"A","B","C","D","E","F","G","H","I","J","K","L","M",
      "N","O","P","Q","R","S","T","U","V","W","X","Y","Z">>

ToUpper(n) ==
    \* strings.ToUpper on ASCII text
    [ k \in DOMAIN n |->
        IF \E x \in DOMAIN LowerLetters : LowerLetters[x] = n[k]
        THEN UpperLetters[CHOOSE x \in DOMAIN LowerLetters : LowerLetters[x] = n[k]]
        ELSE n[k] ]

severityFromName(n) ==
    \* the index of the upper-cased name in severityName, debug when absent
    LET u == ToUpper(n)
    IN  IF \E x \in DOMAIN severityName : severityName[x] = u
        THEN (CHOOSE x \in DOMAIN severityName : severityName[x] = u) - 1
        ELSE debug

(***************************************************************************)
(* Formatters (formatting.go).  A formatter value is [kind, s]: s is the   *)
(* text of a literal, the name of a property, and empty otherwise.         *)
(***************************************************************************)
Fmt(kind, s) ==
    [kind |-> kind, s |-> s]

Names(kind) ==
    CASE kind = "date"     -> << <<"d","a","t","e">>, <<"d">> >>
      [] kind = "severity" -> << <<"s","e","v","e","r","i","t","y">>, <<"s">> >>
      [] kind = "logger"   -> << <<"l","o","g","g","e","r">> >>
      [] kind = "file"     -> << <<"f","i","l","e">>, <<"f">> >>
      [] kind = "line"     -> << <<"l","i","n","e">> >>
      [] kind = "context"  -> << <<"c","o","n","t","e","x","t">>, <<"c">> >>
      [] kind = "message"  -> << <<"m","e","s","s","a","g","e">>, <<"m">> >>
      [] kind = "newline"  -> << <<"n","e","w","l","i","n","e">>, <<"n">> >>
      [] kind = "property" -> << <<"p","r","o","p","e","r","t","y">>, <<"p">> >>
      [] kind = "json"     -> << <<"J","S","O","N">> >>
      [] OTHER             -> << >>

ParameterIgnored(f, p) ==
    \* a WithParameter that forgets the name
    Fmt(f.kind, << >>)

WithParameter(f, p) ==
    \* every formatter returns a fresh instance; only literal and property
    \* keep the parameter
    IF f.kind \in {"literal", "property"} THEN Fmt(f.kind, p) ELSE Fmt(f.kind, << >>)

formatters ==
    \* the registry, in the order extract searches it
    << Fmt("date", << >>), Fmt("severity", << >>), Fmt("logger", << >>),
       Fmt("file", << >>), Fmt("line", << >>), Fmt("context", << >>),
       Fmt("message", << >>), Fmt("newline", << >>), Fmt("property", << >>) >>

(***************************************************************************)
(* extract: the template compiler.  Offsets are 0-based as in the source;  *)
(* format[i] of the source is format[i + 1] here.                          *)
(***************************************************************************)
HasPrefixAt(format, i, t) ==
    \* len(t) <= len(format[i:]) && t == format[i:i+len(t)]
    /\ Len(t) <= Len(format) - i
    /\ t = Slice(format, i, i + Len(t))

Candidates(format, i) ==
    \* <<formatter index, alias index>> of every alias matching at offset i
    { c \in (DOMAIN formatters) \X (1 .. 2) :
        /\ c[2] \in DOMAIN Names(formatters[c[1]].kind)
        /\ HasPrefixAt(format, i, Names(formatters[c[1]].kind)[c[2]]) }

LastMatch(format, i) ==
    \* a search that goes on after the first match and keeps the last one
    CHOOSE c \in Candidates(format, i) :
        \A d \in Candidates(format, i) :
            \/ c[1] > d[1]
            \/ (c[1] = d[1] /\ c[2] >= d[2])

FirstMatch(format, i) ==
    \* the match the two nested loops reach first
    CHOOSE c \in Candidates(format, i) :
        \A d \in Candidates(format, i) :
            \/ c[1] < d[1]
            \/ (c[1] = d[1] /\ c[2] <= d[2])

IndexByte(s, c) ==
    \* strings.IndexByte: 0-based offset of the first c in s, -1 when absent
    IF \E k \in DOMAIN s : s[k] = c
    THEN (CHOOSE k \in DOMAIN s : s[k] = c /\ \A j \in 1 .. (k - 1) : s[j] # c) - 1
    ELSE -1

FlushLiteral(s, p) ==
    IF Len(p) > 0 THEN Append(s, Fmt("literal", p)) ELSE s

ExtractOk(s) ==
    [ok |-> TRUE, fs |-> s, err |-> "", pos |-> -1]

ExtractErr(e, pos) ==
    [ok |-> FALSE, fs |-> << >>, err |-> e, pos |-> pos]

NeverEscaped(format, i) ==
    \* a compiler that does not know the escape
    FALSE

Escaped(format, i) ==
    \* format[i+1] == '%'
    format[i + 2] = "%"

PosAfterPercent(i) ==
    \* the offset after the % sign
    i

SyntaxErrorPos(i) ==
    \* the position in "invalid syntax at position %d": i-1
    i - 1

BracePosBefore(i) ==
    \* the offset before the brace
    i - 1

BraceErrorPos(i) ==
    \* the position in "unclosed parameter brace at position %d": i
    i

RECURSIVE ExtractFrom(_, _, _, _)
ExtractFrom(format, i, s, p) ==
    IF i >= Len(format) THEN ExtractOk(FlushLiteral(s, p))
    ELSE
      LET c == format[i + 1] IN
      IF c # "%" THEN ExtractFrom(format, i + 1, s, Append(p, c))
      ELSE IF Len(format) - i = 1 THEN ExtractFrom(format, i + 1, s, Append(p, c))
      ELSE IF Escaped(format, i) THEN ExtractFrom(format, i + 2, s, Append(p, c))
      ELSE
        LET i1 == i + 1
            s1 == FlushLiteral(s, p)
        IN  IF Candidates(format, i1) = {} THEN ExtractErr("invalid syntax", SyntaxErrorPos(i1))
            ELSE
              LET m  == FirstMatch(format, i1)
                  f  == formatters[m[1]]
                  i2 == i1 + Len(Names(f.kind)[m[2]])
              IN  IF i2 < Len(format) /\ format[i2 + 1] = "{"
                  THEN LET j == IndexByte(Slice(format, i2, Len(format)), "}")
                       IN  IF j = -1
                           THEN ExtractErr("invalid syntax - unclosed parameter brace",
                                           BraceErrorPos(i2))
                           ELSE ExtractFrom(format, i2 + j + 1,
                                    Append(s1, WithParameter(f, Slice(format, i2 + 1, i2 + j))),
                                    << >>)
                  ELSE ExtractFrom(format, i2, Append(s1, f), << >>)

extract(format) ==
    ExtractFrom(format, 0, << >>, << >>)

(***************************************************************************)
(* Values passed as log arguments and properties: a string or an integer. *)
(***************************************************************************)
StrVal(s) ==
    [t |-> "s", s |-> s, i |-> 0]

IntVal(i) ==
    [t |-> "i", s |-> << >>, i |-> i]

digits ==
    <<"0","1","2","3","4","5","6","7","8","9">>

RECURSIVE ItoaNat(_)
ItoaNat(n) ==
    IF n < 10 THEN << digits[n + 1] >>
    ELSE Append(ItoaNat(n \div 10), digits[(n % 10) + 1])

Itoa(n) ==
    \* strconv.Itoa
    IF n < 0 THEN << "-" >> \o ItoaNat(0 - n) ELSE ItoaNat(n)

ValStr(v) ==
    \* the default (%v) string form of a value
    IF v.t = "s" THEN v.s ELSE Itoa(v.i)

RECURSIVE SprintFrom(_, _)
SprintFrom(args, k) ==
    \* fmt.Fprint: a space goes between two operands when neither is a string
    IF k > Len(args) THEN << >>
    ELSE (IF k > 1 /\ args[k - 1].t # "s" /\ args[k].t # "s" THEN << " " >> ELSE << >>)
         \o ValStr(args[k]) \o SprintFrom(args, k + 1)

Sprint(args) ==
    SprintFrom(args, 1)

Verbs ==
    {"d", "s", "v"}

RECURSIVE SprintfFrom(_, _, _, _)
SprintfFrom(format, i, args, k) ==
    \* fmt.Fprintf for the verbs %d, %s, %v and the escape %%, on a format whose
    \* verbs agree in number and type with the arguments (WellFormed below)
    IF i >= Len(format) THEN << >>
    ELSE IF format[i + 1] = "%" /\ i + 1 < Len(format) /\ format[i + 2] = "%"
         THEN << "%" >> \o SprintfFrom(format, i + 2, args, k)
    ELSE IF format[i + 1] = "%" /\ i + 1 < Len(format) /\ format[i + 2] \in Verbs
              /\ k <= Len(args)
         THEN ValStr(args[k]) \o SprintfFrom(format, i + 2, args, k + 1)
    ELSE << format[i + 1] >> \o SprintfFrom(format, i + 1, args, k)

Sprintf(format, args) ==
    SprintfFrom(format, 0, args, 1)

(***************************************************************************)
(* Rendering: each formatter's Format appends to the message's buffer.     *)
(***************************************************************************)
pad2Digits(i) ==
    << digits[((i \div 10) % 10) + 1], digits[(i % 10) + 1] >>

RECURSIVE padNDigits(_, _)
padNDigits(i, n) ==
    \* the low n decimal digits of i, zero-filled on the left
    IF n = 0 THEN << >>
    ELSE Append(padNDigits(i \div 10, n - 1), digits[(i % 10) + 1])

setTime(t) ==
    \* yyyy-mm-dd hh:mm:ss.uuuuuu
    padNDigits(t.year, 4) \o << "-" >> \o pad2Digits(t.month) \o << "-" >>
        \o pad2Digits(t.day) \o << " " >> \o pad2Digits(t.hour) \o << ":" >>
        \o pad2Digits(t.minute) \o << ":" >> \o pad2Digits(t.second) \o << "." >>
        \o padNDigits(t.micro, 6)

Format(f, m) ==
    \* the bytes formatter f appends for message m
    CASE f.kind = "literal"  -> f.s
      [] f.kind = "date"     -> setTime(m.timestamp)
      [] f.kind = "severity" -> severityName[m.severity + 1]
      [] f.kind = "logger"   -> m.name
      [] f.kind = "file"     -> m.file
      [] f.kind = "line"     -> Itoa(m.line)
      [] f.kind = "context"  -> m.ctx
      [] f.kind = "message"  -> IF Len(m.format) > 0
                                THEN Sprintf(m.format, m.args)
                                ELSE Sprint(m.args)
      [] f.kind = "newline"  -> << "\n" >>
      [] f.kind = "property" -> IF f.s \in DOMAIN m.properties
                                THEN ValStr(m.properties[f.s])
                                ELSE << >>
      [] OTHER               -> << >>

RECURSIVE RenderFrom(_, _, _)
RenderFrom(fs, m, k) ==
    IF k > Len(fs) THEN << >> ELSE Format(fs[k], m) \o RenderFrom(fs, m, k + 1)

Render(fs, m) ==
    \* for _, f := range a.formatters { f.Format(m) } on a reset message
    RenderFrom(fs, m, 1)

(***************************************************************************)
(* Bounds of the model and the inputs the operations are tried on.         *)
(***************************************************************************)
MaxOps == 4
MaxCfgOps == 3
MaxTime == 2
MaxCreateFail == 1
NumThreads == 2
TicksPerSecond == 2

\* bufio buffer size and the chunk an io.Writer delivers at once, scaled down
bufferSize == 64
WriteChunk == 32
\* goroutines that can be inside output at the same time
MaxHeld == 51
\* pieces in a template, arguments in a message
MaxPieces == 3
MaxArgs == 3
\* calls of output by concurrent goroutines
MaxCalls == 3

Threads ==
    1 .. NumThreads

\* the application goroutine of the sequential specification
SeqThreads ==
    {1}

Appenders ==
    {"console", "rolling"}

\* a.max, in bytes of the model: none, less than a record, less than two
\* records, more than two records
MaxFileSizes ==
    {0, 30, 80, 100}

defaultFormat ==
    <<"%","d","a","t","e"," ","%","s","e","v","e","r","i","t","y"," ","(",
      "%","f","i","l","e",":","%","l","i","n","e",")"," ","-"," ",
      "%","m","e","s","s","a","g","e","%","n","e","w","l","i","n","e">>

Templates ==
    { <<"%","s","%","%","%","p","{","k","}">>,
      <<"b","%","h">>,
      <<"%","p","{","k">> }

FilterArgs ==
    { << <<"I","n","f","o">>, <<"w","a","r","n">> >>,
      << <<"w","a","r","n","i","n","g">> >> }

Stamp ==
    [year |-> 2016, month |-> 4, day |-> 9, hour |-> 18, minute |-> 3,
     second |-> 28, micro |-> 342017]

Msg(sev, format, args) ==
    [severity |-> sev, format |-> format, args |-> args, name |-> <<"L">>,
     file |-> <<"a",".","g","o">>, line |-> 7, ctx |-> << >>, timestamp |-> Stamp,
     properties |-> (<<"k">> :> IntVal(45))]

Messages ==
    { Msg(info, << >>, << StrVal(<<"x">>) >>),
      Msg(debug, <<"n","=","%","d">>, << IntVal(3) >>) }

FileNames ==
    0 .. (MaxTime \div TicksPerSecond)

(***************************************************************************)
(* State.                                                                  *)
(***************************************************************************)
VARIABLES
    a_formatters,   \* a.formatters of each appender
    a_filters,      \* a.filters of each appender, as the set of admitted severities
    a_Writer,       \* rolling: a.Writer, 0 for nil, else the index of the bufio.Writer
    a_file,         \* rolling: a.file, 0 for nil, else the index of the os.File
    a_bytes,        \* rolling: a.bytes
    a_max,          \* rolling: a.max
    a_mu,           \* rolling: a.mu: 0 free, t held by goroutine t, -1 by the flusher
    handles,        \* the os.File objects created so far: [name, closed, closes]
    writers,        \* the bufio.Writer of each handle: [buf, err]
    disk,           \* file name -> content
    created,        \* names passed to os.Create, in order
    now,            \* the clock, in ticks
    c_mu,           \* console: a.mu
    out,            \* console: bytes delivered to a.out
    pc,             \* position of each application goroutine
    loc,            \* locals of each application goroutine's call
    fpc,            \* position of the flusher goroutine
    frecv,          \* flusher: the writer its Flush call runs on
    accepted,       \* the writes that reached the sink: [a, p, n]
    hist,           \* completed application calls
    ops,            \* number of application calls started
    rotations,      \* files created by rotate() called from Write
    createFails,    \* os.Create failures so far
    ioError,        \* some I/O call returned an error
    panicked,       \* "" or the call in which a goroutine panicked
    pool,           \* log.go: the messages in the pool channel, by buffer length
    held,           \* log.go: messages taken by getMessage and not yet put back
    got,            \* log.go: what the last getMessage returned: [pooled, len]
    lastPut,        \* log.go: the last putMessage: [len, outcome]
    m_appenders,    \* log.go: manager.appenders, name -> appender
    m_level,        \* log.go: manager.level
    l_level,        \* log.go: the level of the logger in use
    l_a,            \* log.go: the appenders of the logger in use
    lastCall,       \* log.go: the last call of the application to the package
    events,         \* log.go: what that call did to appenders and the process
    exited,         \* log.go: exit has been called
    f_tokens,       \* formatting.go: the pieces of the template given to extract
    f_msg,          \* formatting.go: the message to render
    f_res,          \* formatting.go: what extract returned
    f_out,          \* formatting.go: the bytes of the message after the formatters
    f_pc,           \* formatting.go: what has been done with the input
    o_calls,        \* log.go: each goroutine's call of output: [pc, msg, as, idx, put]
    o_chan,         \* log.go: the pool channel, as the messages queued in it
    o_made,         \* log.go: LogMessages allocated so far
    o_started,      \* log.go: calls of output started so far
    t_buf,          \* testAppender: a.buf, the sink of its console appender
    t_Messages,     \* testAppender: a.Messages
    t_logMessages   \* testAppender: a.logMessages

appenderVars ==
    << a_formatters, a_filters, a_Writer, a_file, a_bytes, a_max, a_mu, handles,
       writers, disk, created, now, c_mu, out, pc, loc, fpc, frecv, accepted,
       hist, ops, rotations, createFails, ioError, panicked >>

poolVars ==
    << pool, held, got, lastPut >>

\* the state of log.go, which no appender touches
mgrVars ==
    << m_appenders, m_level, l_level, l_a, lastCall, events, exited >>

fmtVars ==
    << f_tokens, f_msg, f_res, f_out, f_pc >>

\* the calls of output in progress, with the identity of each message
outVars ==
    << o_calls, o_chan, o_made, o_started >>

testVars ==
    << t_buf, t_Messages, t_logMessages >>

pkgVars ==
    << poolVars, mgrVars, fmtVars, outVars, testVars >>

vars ==
    << appenderVars, pkgVars >>

cfgVars ==
    << a_formatters, a_filters >>

fileVars ==
    << a_Writer, a_file, a_bytes, handles, writers, disk, created, rotations,
       createFails >>

consoleVars ==
    << c_mu, out >>

flusherVars ==
    << fpc, frecv >>

LocInit ==
    [a |-> "console", m |-> Msg(debug, << >>, << >>), p |-> << >>, rot |-> FALSE,
     ret |-> "app", recv |-> 0, names |-> << >>, idx |-> 0, wid |-> 0, off |-> 0]

PoolInit ==
    \* var pool = make(chan *LogMessage, 50): empty
    /\ pool = EmptyBag
    /\ held = 0
    /\ got = [pooled |-> FALSE, len |-> 0]
    /\ lastPut = [len |-> 0, outcome |-> "none"]

Call(op, arg, err) ==
    \* a call of the application: its name, its text arguments, its error, and
    \* for a logging call its severity and whether it is the f-variant
    [op |-> op, arg |-> arg, err |-> err, s |-> 0, f |-> FALSE]

MgrInit ==
    \* newLogManager, and a logger as New(name, "debug") makes it
    /\ m_appenders = [n \in {"console"} |-> "ConsoleAppender"]
    /\ m_level = debug
    /\ l_level = debug
    /\ l_a = << "ConsoleAppender" >>
    /\ lastCall = Call("none", << >>, "")
    /\ events = << >>
    /\ exited = FALSE

FmtInit ==
    \* nothing compiled yet
    /\ f_tokens = << >>
    /\ f_msg = Msg(debug, << >>, << >>)
    /\ f_res = ExtractErr("", -1)
    /\ f_out = << >>
    /\ f_pc = "idle"

NoCall ==
    [pc |-> "idle", msg |-> 0, as |-> << >>, idx |-> 0, put |-> FALSE]

OutInit ==
    \* no call of output in progress, the pool empty
    /\ o_calls = [t \in Threads |-> NoCall]
    /\ o_chan = << >>
    /\ o_made = 0
    /\ o_started = 0

TestInit ==
    \* newTestAppender: an empty buffer, nothing appended
    /\ t_buf = << >>
    /\ t_Messages = << >>
    /\ t_logMessages = << >>

logname(t) ==
    \* the name carries the time to the second (and the constant prefix and pid)
    t \div TicksPerSecond

Init ==
    /\ a_formatters = [a \in Appenders |-> extract(defaultFormat).fs]
    /\ a_filters = [a \in Appenders |-> { severityFromName(n) : n \in Range(severityName) }]
    /\ a_max \in MaxFileSizes
    /\ a_bytes = 0
    /\ now = 0
    /\ handles = << [name |-> logname(0), closed |-> FALSE, closes |-> 0] >>
    /\ writers = << [buf |-> << >>, err |-> FALSE] >>
    /\ a_file = 1
    /\ a_Writer = 1
    /\ a_mu = 0
    /\ disk = [n \in FileNames |-> << >>]
    /\ created = << logname(0) >>
    /\ c_mu = 0
    /\ out = << >>
    /\ pc = [t \in Threads |-> "idle"]
    /\ loc = [t \in Threads |-> LocInit]
    /\ fpc = "wait"
    /\ frecv = 0
    /\ accepted = << >>
    /\ hist = << >>
    /\ ops = 0
    /\ rotations = 0
    /\ createFails = 0
    /\ ioError = FALSE
    /\ panicked = ""
    /\ PoolInit
    /\ MgrInit
    /\ FmtInit
    /\ OutInit
    /\ TestInit

(***************************************************************************)
(* bufio.Writer over an os.File.  Writer w wraps handle w.  A write to a   *)
(* closed handle fails and the error sticks to the bufio.Writer.           *)
(***************************************************************************)
Tagged(wid, p) ==
    \* the bytes of write number wid, each carrying its origin
    [k \in 1 .. Len(p) |-> <<wid, k>>]

RECURSIVE BufWriteLoop(_)
BufWriteLoop(st) ==
    \* bufio.Writer.Write on st = [buf, err, file, closed, p, nn]
    IF Len(st.p) > bufferSize - Len(st.buf) /\ ~st.err
    THEN IF Len(st.buf) = 0
         THEN \* large write, empty buffer: written directly
              IF st.closed
              THEN BufWriteLoop([st EXCEPT !.err = TRUE])
              ELSE BufWriteLoop([st EXCEPT !.file = @ \o st.p, !.nn = @ + Len(st.p),
                                           !.p = << >>])
         ELSE \* fill the buffer and flush it
              LET n    == bufferSize - Len(st.buf)
                  full == st.buf \o Slice(st.p, 0, n)
              IN  IF st.closed
                  THEN BufWriteLoop([st EXCEPT !.buf = full, !.err = TRUE, !.nn = @ + n,
                                               !.p = Slice(st.p, n, Len(st.p))])
                  ELSE BufWriteLoop([st EXCEPT !.buf = << >>, !.file = @ \o full,
                                               !.nn = @ + n,
                                               !.p = Slice(st.p, n, Len(st.p))])
    ELSE IF st.err THEN st
    ELSE [st EXCEPT !.buf = @ \o st.p, !.nn = @ + Len(st.p), !.p = << >>]

BufWrite(w, data) ==
    BufWriteLoop([buf |-> writers[w].buf, err |-> writers[w].err,
                  file |-> disk[handles[w].name], closed |-> handles[w].closed,
                  p |-> data, nn |-> 0])

FlushNeedsWrite(w) ==
    \* Flush returns at once on a sticky error or an empty buffer
    ~writers[w].err /\ Len(writers[w].buf) > 0

(***************************************************************************)
(* Application calls.  A call is started from "idle"; hist records it when *)
(* it returns.                                                             *)
(***************************************************************************)
Done(op, a, err, wrote) ==
    [op |-> op, a |-> a, err |-> err, wrote |-> wrote]

Return(t, entry) ==
    /\ pc' = [pc EXCEPT ![t] = "idle"]
    /\ loc' = [loc EXCEPT ![t] = LocInit]
    /\ hist' = Append(hist, entry)

Goto(t, label) ==
    pc' = [pc EXCEPT ![t] = label]

CanCall(t) ==
    /\ panicked = ""
    /\ pc[t] = "idle"
    /\ ops < MaxOps

At(t, label) ==
    /\ panicked = ""
    /\ pc[t] = label

Panic(site) ==
    /\ panicked' = site
    /\ UNCHANGED << a_formatters, a_filters, a_Writer, a_file, a_bytes, a_max, pkgVars, a_mu,
                    handles, writers, disk, created, now, c_mu, out, pc, loc, fpc,
                    frecv, accepted, hist, ops, rotations, createFails, ioError >>

FormattersReplaced(old, r) ==
    \* a SetFormat that assigns whatever extract returned
    r.fs

FormattersAfterSetFormat(old, r) ==
    \* if err != nil { return err }; a.formatters = fs
    IF r.ok THEN r.fs ELSE old

SetFormat(t, a, format) ==
    \* extract, then replace a.formatters unless extract failed
    /\ CanCall(t)
    /\ ops' = ops + 1
    /\ LET r == extract(format)
       IN  /\ a_formatters' = [a_formatters EXCEPT ![a] =
                                  FormattersAfterSetFormat(@, r)]
           /\ Return(t, Done("SetFormat", a, ~r.ok, FALSE))
    /\ UNCHANGED << a_filters, fileVars, a_max, pkgVars, a_mu, now, consoleVars, flusherVars,
                    accepted, ioError, panicked >>

SetFilters(t, a, names) ==
    \* a.filters = make(map[severity]bool)
    /\ CanCall(t)
    /\ ops' = ops + 1
    /\ a_filters' = [a_filters EXCEPT ![a] = {}]
    /\ Goto(t, "sf_add")
    /\ loc' = [loc EXCEPT ![t] = [LocInit EXCEPT !.a = a, !.names = names, !.idx = 1]]
    /\ UNCHANGED << a_formatters, fileVars, a_max, pkgVars, a_mu, now, consoleVars, flusherVars,
                    accepted, hist, ioError, panicked >>

SetFiltersAdd(t) ==
    \* one iteration of the loop over the names
    /\ At(t, "sf_add")
    /\ IF loc[t].idx > Len(loc[t].names)
       THEN /\ Return(t, Done("SetFilters", loc[t].a, FALSE, FALSE))
            /\ UNCHANGED a_filters
       ELSE /\ a_filters' = [a_filters EXCEPT ![loc[t].a] =
                                @ \cup { severityFromName(loc[t].names[loc[t].idx]) }]
            /\ loc' = [loc EXCEPT ![t].idx = @ + 1]
            /\ UNCHANGED << pc, hist >>
    /\ UNCHANGED << a_formatters, fileVars, a_max, pkgVars, a_mu, now, consoleVars, flusherVars,
                    accepted, ops, ioError, panicked >>

AppendCall(t, a, m) ==
    \* m.Reset()
    /\ CanCall(t)
    /\ ops' = ops + 1
    /\ Goto(t, "ap_filter")
    /\ loc' = [loc EXCEPT ![t] = [LocInit EXCEPT !.a = a, !.m = m]]
    /\ UNCHANGED << cfgVars, fileVars, a_max, pkgVars, a_mu, now, consoleVars, flusherVars,
                    accepted, hist, ioError, panicked >>

AppendFilter(t) ==
    \* if !a.filters[m.severity] { return }
    /\ At(t, "ap_filter")
    /\ IF loc[t].m.severity \in a_filters[loc[t].a]
       THEN Goto(t, "ap_format") /\ UNCHANGED << loc, hist >>
       ELSE Return(t, Done("Append", loc[t].a, FALSE, FALSE))
    /\ UNCHANGED << cfgVars, fileVars, a_max, pkgVars, a_mu, now, consoleVars, flusherVars,
                    accepted, ops, ioError, panicked >>

AppendFormat(t) ==
    \* run the formatters into the message buffer, then call a.Write(m.Bytes())
    /\ At(t, "ap_format")
    /\ loc' = [loc EXCEPT ![t].p = Render(a_formatters[loc[t].a], loc[t].m)]
    /\ Goto(t, IF loc[t].a = "rolling" THEN "w_lock" ELSE "cw_lock")
    /\ UNCHANGED << cfgVars, fileVars, a_max, pkgVars, a_mu, now, consoleVars, flusherVars,
                    accepted, hist, ops, ioError, panicked >>

(***************************************************************************)
(* consoleAppender.Write and Close.                                        *)
(***************************************************************************)
LockNotExclusive(mu) ==
    \* a lock that lets every caller in
    TRUE

MutexFree(mu) ==
    \* sync.Mutex.Lock goes on only when no one holds the mutex
    mu = 0

ConsoleLock(t) ==
    \* a.mu.Lock()
    /\ At(t, "cw_lock")
    /\ MutexFree(c_mu)
    /\ c_mu' = t
    /\ accepted' = Append(accepted, [a |-> "console", p |-> loc[t].p, n |-> 0])
    /\ loc' = [loc EXCEPT ![t].wid = Len(accepted) + 1]
    /\ Goto(t, "cw_write")
    /\ UNCHANGED << cfgVars, fileVars, a_max, pkgVars, a_mu, now, out, flusherVars, hist, ops,
                    ioError, panicked >>

ConsoleWrite(t) ==
    \* a.out.Write(p): the stream takes the bytes a chunk at a time; the deferred
    \* Unlock runs when the last chunk is in
    /\ At(t, "cw_write")
    /\ LET k   == Min(WriteChunk, Len(loc[t].p) - loc[t].off)
           end == loc[t].off + k
       IN  /\ out' = out \o Slice(Tagged(loc[t].wid, loc[t].p), loc[t].off, end)
           /\ accepted' = [accepted EXCEPT ![loc[t].wid].n = end]
           /\ IF end >= Len(loc[t].p)
              THEN /\ c_mu' = 0
                   /\ Return(t, Done("Append", "console", FALSE, TRUE))
              ELSE /\ loc' = [loc EXCEPT ![t].off = end]
                   /\ UNCHANGED << c_mu, pc, hist >>
    /\ UNCHANGED << cfgVars, fileVars, a_max, pkgVars, a_mu, now, flusherVars, ops, ioError,
                    panicked >>

ConsoleClose(t) ==
    \* to satisfy the interface: nothing
    /\ CanCall(t)
    /\ ops' = ops + 1
    /\ Return(t, Done("Close", "console", FALSE, FALSE))
    /\ UNCHANGED << cfgVars, fileVars, a_max, pkgVars, a_mu, now, consoleVars, flusherVars,
                    accepted, ioError, panicked >>

(***************************************************************************)
(* rollingFileAppender.Close, called by the application or by rotate.      *)
(***************************************************************************)
CloseCall(t) ==
    /\ CanCall(t)
    /\ ops' = ops + 1
    /\ Goto(t, "cl_check")
    /\ loc' = [loc EXCEPT ![t] = [LocInit EXCEPT !.a = "rolling", !.ret = "app"]]
    /\ UNCHANGED << cfgVars, fileVars, a_max, pkgVars, a_mu, now, consoleVars, flusherVars,
                    accepted, hist, ioError, panicked >>

CloseReturn(t) ==
    \* back to the application, or to rotate after its a.Close()
    IF loc[t].ret = "app"
    THEN Return(t, Done("Close", "rolling", FALSE, FALSE))
    ELSE Goto(t, "rot_create") /\ UNCHANGED << loc, hist >>

WriterAssumedLive(w) ==
    \* a Close without the nil test
    TRUE

WriterLive(w) ==
    \* a.Writer != nil
    w # 0

CloseCheck(t) ==
    \* if a.Writer != nil
    /\ At(t, "cl_check")
    /\ IF WriterLive(a_Writer)
       THEN Goto(t, "cl_flush") /\ UNCHANGED << loc, hist >>
       ELSE CloseReturn(t)
    /\ UNCHANGED << cfgVars, fileVars, a_max, pkgVars, a_mu, now, consoleVars, flusherVars,
                    accepted, ops, ioError, panicked >>

CloseFlush(t) ==
    \* a.Flush(): the buffered bytes go to the file
    /\ At(t, "cl_flush")
    /\ IF a_Writer = 0
       THEN Panic("Close")
       ELSE /\ IF ~FlushNeedsWrite(a_Writer)
               THEN /\ Goto(t, "cl_fclose")
                    /\ UNCHANGED << writers, disk, loc, ioError >>
               ELSE IF handles[a_Writer].closed
               THEN /\ writers' = [writers EXCEPT ![a_Writer].err = TRUE]
                    /\ ioError' = TRUE
                    /\ Goto(t, "cl_fclose")
                    /\ UNCHANGED << disk, loc >>
               ELSE /\ disk' = [disk EXCEPT ![handles[a_Writer].name] =
                                    @ \o writers[a_Writer].buf]
                    /\ loc' = [loc EXCEPT ![t].recv = a_Writer]
                    /\ Goto(t, "cl_flush2")
                    /\ UNCHANGED << writers, ioError >>
            /\ UNCHANGED << cfgVars, a_Writer, a_file, a_bytes, handles, created,
                            rotations, createFails, a_max, pkgVars, a_mu, now, consoleVars,
                            flusherVars, accepted, hist, ops, panicked >>

CloseFlushReset(t) ==
    \* the end of Flush: b.n = 0
    /\ At(t, "cl_flush2")
    /\ writers' = [writers EXCEPT ![loc[t].recv].buf = << >>]
    /\ Goto(t, "cl_fclose")
    /\ UNCHANGED << cfgVars, a_Writer, a_file, a_bytes, handles, disk, created,
                    rotations, createFails, a_max, pkgVars, a_mu, now, consoleVars,
                    flusherVars, loc, accepted, hist, ops, ioError, panicked >>

CloseFile(t) ==
    \* a.file.Close()
    /\ At(t, "cl_fclose")
    /\ IF a_file = 0
       THEN ioError' = TRUE /\ UNCHANGED handles
       ELSE /\ handles' = [handles EXCEPT ![a_file].closed = TRUE,
                                          ![a_file].closes = @ + 1]
            /\ ioError' = (ioError \/ handles[a_file].closed)
    /\ Goto(t, "cl_nil")
    /\ UNCHANGED << cfgVars, a_Writer, a_file, a_bytes, writers, disk, created,
                    rotations, createFails, a_max, pkgVars, a_mu, now, consoleVars,
                    flusherVars, loc, accepted, hist, ops, panicked >>

CloseNil(t) ==
    \* a.Writer = nil; a.file = nil
    /\ At(t, "cl_nil")
    /\ a_Writer' = 0
    /\ a_file' = 0
    /\ CloseReturn(t)
    /\ UNCHANGED << cfgVars, a_bytes, handles, writers, disk, created, rotations,
                    createFails, a_max, pkgVars, a_mu, now, consoleVars, flusherVars,
                    accepted, ops, ioError, panicked >>

(***************************************************************************)
(* rollingFileAppender.Write and rotate.                                   *)
(***************************************************************************)
WriteLock(t) ==
    \* a.mu.Lock()
    /\ At(t, "w_lock")
    /\ MutexFree(a_mu)
    /\ a_mu' = t
    /\ Goto(t, "w_check")
    /\ UNCHANGED << cfgVars, fileVars, a_max, pkgVars, now, consoleVars, flusherVars, loc,
                    accepted, hist, ops, ioError, panicked >>

NeedRotateIgnoringLen(bytes, n, max) ==
    \* a test that leaves the pending write out
    bytes >= max

NeedRotate(bytes, n, max) ==
    \* a.bytes+uint64(len(p)) >= a.max
    bytes + n >= max

WriteCheck(t) ==
    /\ At(t, "w_check")
    /\ IF NeedRotate(a_bytes, Len(loc[t].p), a_max)
       THEN Goto(t, "rot_check") /\ loc' = [loc EXCEPT ![t].rot = TRUE]
       ELSE Goto(t, "w_write") /\ UNCHANGED loc
    /\ UNCHANGED << cfgVars, fileVars, a_max, pkgVars, a_mu, now, consoleVars, flusherVars,
                    accepted, hist, ops, ioError, panicked >>

RotateNeverCloses(file) ==
    \* a rotate that leaves the current file as it is
    FALSE

RotateMustClose(file) ==
    \* a.file != nil
    file # 0

RotateCheck(t) ==
    \* if a.file != nil { a.Close() }
    /\ At(t, "rot_check")
    /\ IF RotateMustClose(a_file)
       THEN Goto(t, "cl_check") /\ loc' = [loc EXCEPT ![t].ret = "rotate"]
       ELSE Goto(t, "rot_create") /\ UNCHANGED loc
    /\ UNCHANGED << cfgVars, fileVars, a_max, pkgVars, a_mu, now, consoleVars, flusherVars,
                    accepted, hist, ops, ioError, panicked >>

BytesKept(bytes) ==
    \* a rotate that does not reset the counter
    bytes

BytesAfterRotate(bytes) ==
    \* a.bytes = 0
    0

RotateCreate(t) ==
    \* a.bytes = 0; a.file, err = os.Create(logname(...)); on success a new
    \* bufio.Writer over the file.  os.Create truncates a file that exists.
    /\ At(t, "rot_create")
    /\ a_bytes' = BytesAfterRotate(a_bytes)
    /\ \/ /\ handles' = Append(handles, [name |-> logname(now), closed |-> FALSE,
                                         closes |-> 0])
          /\ writers' = Append(writers, [buf |-> << >>, err |-> FALSE])
          /\ disk' = [disk EXCEPT ![logname(now)] = << >>]
          /\ created' = Append(created, logname(now))
          /\ a_file' = Len(handles) + 1
          /\ a_Writer' = Len(handles) + 1
          /\ rotations' = rotations + 1
          /\ UNCHANGED << createFails, ioError >>
       \/ /\ createFails < MaxCreateFail
          /\ createFails' = createFails + 1
          /\ a_file' = 0
          /\ ioError' = TRUE
          /\ UNCHANGED << handles, writers, disk, created, a_Writer, rotations >>
    /\ Goto(t, "w_write")
    /\ UNCHANGED << cfgVars, a_max, pkgVars, a_mu, now, consoleVars, flusherVars, loc,
                    accepted, hist, ops, panicked >>

WriteBuffered(t) ==
    \* n, err = a.Writer.Write(p); a.bytes += uint64(n); the deferred Unlock
    /\ At(t, "w_write")
    /\ IF a_Writer = 0
       THEN Panic("Write")
       ELSE LET wid == Len(accepted) + 1
                r   == BufWrite(a_Writer, Tagged(wid, loc[t].p))
            IN  /\ writers' = [writers EXCEPT ![a_Writer].buf = r.buf,
                                              ![a_Writer].err = r.err]
                /\ disk' = [disk EXCEPT ![handles[a_Writer].name] = r.file]
                /\ a_bytes' = a_bytes + r.nn
                /\ accepted' = Append(accepted, [a |-> "rolling", p |-> loc[t].p,
                                                 n |-> r.nn])
                /\ ioError' = (ioError \/ r.err)
                /\ a_mu' = 0
                /\ Return(t, Done("Append", "rolling", r.err, TRUE))
                /\ UNCHANGED << cfgVars, a_Writer, a_file, handles, created, rotations,
                                createFails, a_max, pkgVars, now, consoleVars, flusherVars,
                                ops, panicked >>

(***************************************************************************)
(* rollingFileAppender.flusher: one pass of the loop per ticker tick.      *)
(***************************************************************************)
FlusherTick ==
    \* a tick arrives; a.mu.Lock()
    /\ panicked = ""
    /\ fpc = "wait"
    /\ a_mu = 0
    /\ a_mu' = -1
    /\ fpc' = "check"
    /\ UNCHANGED << cfgVars, fileVars, a_max, pkgVars, now, consoleVars, pc, loc, frecv,
                    accepted, hist, ops, ioError, panicked >>

NeverFlush(w) ==
    \* a flusher that skips every tick
    FALSE

NeedFlush(w) ==
    \* a.Writer != nil
    w # 0

FlusherCheck ==
    \* if a.Writer != nil ... else a.mu.Unlock()
    /\ panicked = ""
    /\ fpc = "check"
    /\ IF NeedFlush(a_Writer)
       THEN fpc' = "flush" /\ UNCHANGED a_mu
       ELSE fpc' = "wait" /\ a_mu' = 0
    /\ UNCHANGED << cfgVars, fileVars, a_max, pkgVars, now, consoleVars, pc, loc, frecv,
                    accepted, hist, ops, ioError, panicked >>

FlusherFlush ==
    \* a.Flush()
    /\ panicked = ""
    /\ fpc = "flush"
    /\ IF a_Writer = 0
       THEN Panic("flusher")
       ELSE /\ IF ~FlushNeedsWrite(a_Writer)
               THEN /\ fpc' = "sync"
                    /\ UNCHANGED << writers, disk, frecv, ioError >>
               ELSE IF handles[a_Writer].closed
               THEN /\ writers' = [writers EXCEPT ![a_Writer].err = TRUE]
                    /\ ioError' = TRUE
                    /\ fpc' = "sync"
                    /\ UNCHANGED << disk, frecv >>
               ELSE /\ disk' = [disk EXCEPT ![handles[a_Writer].name] =
                                    @ \o writers[a_Writer].buf]
                    /\ frecv' = a_Writer
                    /\ fpc' = "flush2"
                    /\ UNCHANGED << writers, ioError >>
            /\ UNCHANGED << cfgVars, a_Writer, a_file, a_bytes, handles, created,
                            rotations, createFails, a_max, pkgVars, a_mu, now, consoleVars,
                            pc, loc, accepted, hist, ops, panicked >>

FlusherFlushReset ==
    \* the end of Flush: b.n = 0
    /\ panicked = ""
    /\ fpc = "flush2"
    /\ writers' = [writers EXCEPT ![frecv].buf = << >>]
    /\ fpc' = "sync"
    /\ frecv' = 0
    /\ UNCHANGED << cfgVars, a_Writer, a_file, a_bytes, handles, disk, created,
                    rotations, createFails, a_max, pkgVars, a_mu, now, consoleVars, pc, loc,
                    accepted, hist, ops, ioError, panicked >>

FlusherSync ==
    \* a.file.Sync(); a.mu.Unlock()
    /\ panicked = ""
    /\ fpc = "sync"
    /\ ioError' = (ioError \/ a_file = 0 \/ (a_file # 0 /\ handles[a_file].closed))
    /\ fpc' = "wait"
    /\ a_mu' = 0
    /\ UNCHANGED << cfgVars, fileVars, a_max, pkgVars, now, consoleVars, pc, loc, frecv,
                    accepted, hist, ops, panicked >>

ClockTick ==
    \* time passes
    /\ panicked = ""
    /\ now < MaxTime
    /\ now' = now + 1
    /\ UNCHANGED << cfgVars, fileVars, a_max, pkgVars, a_mu, consoleVars, pc, loc,
                    flusherVars, accepted, hist, ops, ioError, panicked >>

(***************************************************************************)
(* Spec: one application goroutine calling Append and Close of a rolling   *)
(* file appender one after the other, the appender's flusher goroutine,    *)
(* the clock, and file creations that may fail.                            *)
(***************************************************************************)
Next ==
    \/ \E t \in SeqThreads, m \in Messages : AppendCall(t, "rolling", m)
    \/ \E t \in SeqThreads : AppendFilter(t)
    \/ \E t \in SeqThreads : AppendFormat(t)
    \/ \E t \in SeqThreads : CloseCall(t)
    \/ \E t \in SeqThreads : CloseCheck(t)
    \/ \E t \in SeqThreads : CloseFlush(t)
    \/ \E t \in SeqThreads : CloseFlushReset(t)
    \/ \E t \in SeqThreads : CloseFile(t)
    \/ \E t \in SeqThreads : CloseNil(t)
    \/ \E t \in SeqThreads : WriteLock(t)
    \/ \E t \in SeqThreads : WriteCheck(t)
    \/ \E t \in SeqThreads : RotateCheck(t)
    \/ \E t \in SeqThreads : RotateCreate(t)
    \/ \E t \in SeqThreads : WriteBuffered(t)
    \/ FlusherTick
    \/ FlusherCheck
    \/ FlusherFlush
    \/ FlusherFlushReset
    \/ FlusherSync
    \/ ClockTick

Spec ==
    Init /\ [][Next]_vars

(***************************************************************************)
(* SpecCfg: one application goroutine configuring (SetFormat, SetFilters)  *)
(* and using (Append) a console and a rolling file appender.               *)
(***************************************************************************)
NextCfg ==
    \/ \E t \in SeqThreads, a \in Appenders, f \in Templates :
           ops < MaxCfgOps /\ SetFormat(t, a, f)
    \/ \E t \in SeqThreads, a \in Appenders, n \in FilterArgs :
           ops < MaxCfgOps /\ SetFilters(t, a, n)
    \/ \E t \in SeqThreads : SetFiltersAdd(t)
    \/ \E t \in SeqThreads, a \in Appenders, m \in Messages :
           ops < MaxCfgOps /\ AppendCall(t, a, m)
    \/ \E t \in SeqThreads : AppendFilter(t)
    \/ \E t \in SeqThreads : AppendFormat(t)
    \/ \E t \in SeqThreads : ConsoleLock(t)
    \/ \E t \in SeqThreads : ConsoleWrite(t)
    \/ \E t \in SeqThreads : CloseCheck(t)
    \/ \E t \in SeqThreads : CloseFlush(t)
    \/ \E t \in SeqThreads : CloseFlushReset(t)
    \/ \E t \in SeqThreads : CloseFile(t)
    \/ \E t \in SeqThreads : CloseNil(t)
    \/ \E t \in SeqThreads : WriteLock(t)
    \/ \E t \in SeqThreads : WriteCheck(t)
    \/ \E t \in SeqThreads : RotateCheck(t)
    \/ \E t \in SeqThreads : RotateCreate(t)
    \/ \E t \in SeqThreads : WriteBuffered(t)

SpecCfg ==
    Init /\ [][NextCfg]_vars

(***************************************************************************)
(* SpecConsole: several goroutines calling Append on one console appender. *)
(***************************************************************************)
NextConsole ==
    \/ \E t \in Threads, m \in Messages : AppendCall(t, "console", m)
    \/ \E t \in Threads : AppendFilter(t)
    \/ \E t \in Threads : AppendFormat(t)
    \/ \E t \in Threads : ConsoleLock(t)
    \/ \E t \in Threads : ConsoleWrite(t)
    \/ \E t \in Threads : ConsoleClose(t)

InitConsole ==
    \* the rolling file appender is not used: one value of its a.max will do
    Init /\ a_max = 0

SpecConsole ==
    InitConsole /\ [][NextConsole]_vars

(***************************************************************************)
(* log.go: the message pool.  The pool is a buffered channel; getMessage   *)
(* resets the message it receives, so which of the pooled messages it      *)
(* receives makes no difference and the channel is kept as a bag of the    *)
(* buffer lengths of the messages in it.  Calls to getMessage and          *)
(* putMessage come from any number of goroutines running output.           *)
(***************************************************************************)
poolCap == 50

dropLen == 250

\* the lengths a message buffer can have when output hands it to putMessage
BufLens ==
    {0, dropLen - 1, dropLen}

PoolLen(p) ==
    \* len(pool)
    BagCardinality(p)

BufferReset(l) ==
    \* m.Reset()
    0

GetMessage ==
    \* select { case m = <-pool: m.Reset(); default: m = &LogMessage{...} }
    /\ held < MaxHeld
    /\ held' = held + 1
    /\ IF pool = EmptyBag
       THEN /\ got' = [pooled |-> FALSE, len |-> 0]
            /\ UNCHANGED pool
       ELSE \E l \in BagToSet(pool) :
                /\ pool' = pool (-) SetToBag({l})
                /\ got' = [pooled |-> TRUE, len |-> BufferReset(l)]
    /\ UNCHANGED << appenderVars, fmtVars, outVars, testVars, mgrVars, lastPut >>

PutAlways(p, l) ==
    \* a putMessage that sends unconditionally
    p (+) SetToBag({l})

PutOutcome(p, l) ==
    \* what putMessage does with a message whose buffer holds l bytes
    IF l >= dropLen THEN "discarded"
    ELSE IF PoolLen(p) < poolCap THEN "pooled"
    ELSE "dropped"

PoolAfterPut(p, l) ==
    \* if m.Len() >= 250 { return }; select { case pool <- m: default: }
    IF PutOutcome(p, l) = "pooled" THEN p (+) SetToBag({l}) ELSE p

PutMessage ==
    /\ held > 0
    /\ held' = held - 1
    /\ \E l \in BufLens :
           /\ lastPut' = [len |-> l, outcome |-> PutOutcome(pool, l)]
           /\ pool' = PoolAfterPut(pool, l)
    /\ UNCHANGED << appenderVars, fmtVars, outVars, testVars, mgrVars, got >>

(***************************************************************************)
(* SpecPool: goroutines in output taking messages from the pool and        *)
(* putting them back.                                                      *)
(***************************************************************************)
InitPkg ==
    \* no rolling file appender is used: one value of its a.max will do
    Init /\ a_max = 0

NextPool ==
    \/ GetMessage
    \/ PutMessage

SpecPool ==
    InitPkg /\ [][NextPool]_vars

(***************************************************************************)
(* log.go: the manager and a logger.  Appenders are taken as opaque        *)
(* objects here: events lists the calls made on them.  The calls below come *)
(* from one goroutine of the application.                                  *)
(***************************************************************************)
AppenderNames ==
    {"console", "a"}

AppenderObjects ==
    {"ConsoleAppender", "A"}

LevelNames ==
    Range(severityName) \cup { <<"l","o","u","d">> }

LogSeverities ==
    \* the severities of Debug, Info, Warn and Error
    {debug, info, warn, errorMsg}

NameLists ==
    { << >>, << "console" >>, << "a" >>, << "a", "console" >> }

Running ==
    panicked = "" /\ ~exited

RegistryOverwritten(reg, name, a) ==
    \* an AddAppender that registers whatever it is given
    [n \in DOMAIN reg \cup {name} |-> IF n = name THEN a ELSE reg[n]]

RegistryAfterAdd(reg, name, a) ==
    \* if _, ok := manager.appenders[name]; ok { return error }; manager.appenders[name] = a
    IF name \in DOMAIN reg
    THEN reg
    ELSE [n \in DOMAIN reg \cup {name} |-> IF n = name THEN a ELSE reg[n]]

AddAppender(name, a) ==
    /\ Running
    /\ m_appenders' = RegistryAfterAdd(m_appenders, name, a)
    /\ lastCall' = Call("AddAppender", << name, a >>,
                        IF name \in DOMAIN m_appenders
                        THEN "appender already exist" ELSE "")
    /\ events' = << >>
    /\ UNCHANGED << appenderVars, fmtVars, outVars, testVars, poolVars, m_level, l_level, l_a, exited >>

SetManagerLevel(level) ==
    \* manager.level = severityFromName(level)
    /\ Running
    /\ m_level' = severityFromName(level)
    /\ lastCall' = Call("SetManagerLevel", << >>, "")
    /\ events' = << >>
    /\ UNCHANGED << appenderVars, fmtVars, outVars, testVars, poolVars, m_appenders, l_level, l_a, exited >>

New(level) ==
    \* a new logger comes into use: its level from the name, the console appender
    /\ Running
    /\ l_level' = severityFromName(level)
    /\ l_a' = << "ConsoleAppender" >>
    /\ lastCall' = Call("New", << >>, "")
    /\ events' = << >>
    /\ UNCHANGED << appenderVars, fmtVars, outVars, testVars, poolVars, m_appenders, m_level, exited >>

WithContext ==
    \* the context logger comes into use: the level and the appenders of its
    \* parent
    /\ Running
    /\ lastCall' = Call("WithContext", << >>, "")
    /\ events' = << >>
    /\ UNCHANGED << appenderVars, fmtVars, outVars, testVars, poolVars, m_appenders, m_level,
                    l_level, l_a, exited >>

SetAppenders(names) ==
    \* l.a = the appenders registered under names; panic on a name not registered
    /\ Running
    /\ lastCall' = Call("SetAppenders", << >>, "")
    /\ events' = << >>
    /\ IF \A i \in DOMAIN names : names[i] \in DOMAIN m_appenders
       THEN /\ l_a' = [i \in DOMAIN names |-> m_appenders[names[i]]]
            /\ UNCHANGED appenderVars
       ELSE /\ l_a' = [i \in 1 .. ((CHOOSE j \in DOMAIN names :
                                       /\ names[j] \notin DOMAIN m_appenders
                                       /\ \A k \in 1 .. (j - 1) :
                                              names[k] \in DOMAIN m_appenders) - 1)
                          |-> m_appenders[names[i]]]
            /\ panicked' = "SetAppenders"
            /\ UNCHANGED << a_formatters, a_filters, a_Writer, a_file, a_bytes, a_max,
                            a_mu, handles, writers, disk, created, now, c_mu, out, pc,
                            loc, fpc, frecv, accepted, hist, ops, rotations,
                            createFails, ioError >>
    /\ UNCHANGED << fmtVars, outVars, testVars, poolVars, m_appenders, m_level, l_level, exited >>

Event(e, a, n) ==
    [e |-> e, a |-> a, n |-> n]

Appends(as, s) ==
    \* for _, a := range appenders { a.Append(msg) }
    [i \in DOMAIN as |-> Event("Append", as[i], s)]

Orders(S) ==
    \* the orders in which range can go over a map with keys S
    { q \in [1 .. Cardinality(S) -> S] : \A i, j \in DOMAIN q : q[i] = q[j] => i = j }

Closes(order) ==
    \* for _, a := range manager.appenders { a.Close() }
    [i \in DOMAIN order |-> Event("Close", m_appenders[order[i]], 0)]

LoggerAdmits(level, s) ==
    \* not: if l.level > s { return }
    ~(level > s)

AdmitsAboveOnly(level, s) ==
    \* a manager that lets through only what is above its level
    ~(level > debug /\ s <= level)

ManagerAdmits(level, s) ==
    \* not: if manager.level > debug && s < manager.level { return }
    ~(level > debug /\ s < level)

OutputPool ==
    \* output's getMessage and putMessage around the calls to Append; the buffer
    \* holds what the last appender rendered, nothing if there is no appender
    /\ \E l \in (IF l_a = << >> THEN {0} ELSE BufLens) :
           IF pool = EmptyBag
           THEN /\ got' = [pooled |-> FALSE, len |-> 0]
                /\ lastPut' = [len |-> l, outcome |-> PutOutcome(pool, l)]
                /\ pool' = PoolAfterPut(pool, l)
           ELSE \E x \in BagToSet(pool) :
                    LET p1 == pool (-) SetToBag({x})
                    IN  /\ got' = [pooled |-> TRUE, len |-> BufferReset(x)]
                        /\ lastPut' = [len |-> l, outcome |-> PutOutcome(p1, l)]
                        /\ pool' = PoolAfterPut(p1, l)
    /\ UNCHANGED held

Log(s, f) ==
    \* Debug, Info, Warn, Error and Debugf, Infof, Warnf, Errorf
    /\ Running
    /\ lastCall' = [Call("Log", << >>, "") EXCEPT !.s = s, !.f = f]
    /\ IF LoggerAdmits(l_level, s) /\ ManagerAdmits(m_level, s)
       THEN events' = Appends(l_a, s) /\ OutputPool
       ELSE events' = << >> /\ UNCHANGED poolVars
    /\ UNCHANGED << appenderVars, fmtVars, outVars, testVars, m_appenders, m_level, l_level, l_a, exited >>

ExitBeforeClose(appends, closes) ==
    \* a Fatal that exits first
    appends \o << Event("exit", "", 1) >> \o closes

StepsOfFatal(appends, closes) ==
    \* manager.output(...); Close(); exit(1)
    appends \o closes \o << Event("exit", "", 1) >>

Fatal(f) ==
    \* Fatal and Fatalf
    /\ Running
    /\ lastCall' = [Call("Fatal", << >>, "") EXCEPT !.s = fatal, !.f = f]
    /\ \E order \in Orders(DOMAIN m_appenders) :
           IF ManagerAdmits(m_level, fatal)
           THEN /\ events' = StepsOfFatal(Appends(l_a, fatal), Closes(order))
                /\ OutputPool
           ELSE /\ events' = StepsOfFatal(<< >>, Closes(order))
                /\ UNCHANGED poolVars
    /\ exited' = TRUE
    /\ UNCHANGED << appenderVars, fmtVars, outVars, testVars, m_appenders, m_level, l_level, l_a >>

(***************************************************************************)
(* SpecMgr: one goroutine of the application registering appenders,        *)
(* setting levels and logging.                                             *)
(***************************************************************************)
NextMgr ==
    \/ \E n \in AppenderNames, a \in AppenderObjects : AddAppender(n, a)
    \/ \E level \in LevelNames : SetManagerLevel(level)
    \/ \E level \in LevelNames : New(level)
    \/ \E names \in NameLists : SetAppenders(names)
    \/ WithContext
    \/ \E s \in LogSeverities, f \in BOOLEAN : Log(s, f)
    \/ \E f \in BOOLEAN : Fatal(f)

SpecMgr ==
    InitPkg /\ [][NextMgr]_vars

(***************************************************************************)
(* formatting.go on its own: a template is compiled by extract and the     *)
(* formatters it returns are run on a message, as the appenders do in      *)
(* SetFormat and Append.  A template is put together from pieces.          *)
(***************************************************************************)
Pieces ==
    { <<"a">>, <<"%">>, <<"%","%">>, <<"%","s">>, <<"%","h">>, <<"%","m">>,
      <<"%","p">>, <<"%","p","r","o","p","e","r","t","y">>,
      <<"{","k","}">>, <<"{","z">>, <<"}">>, <<"%","J","S","O","N">>,
      <<"e","v","e","r","e">>, <<"e","v","e","r","i","t","y">> }

RECURSIVE Flatten(_)
Flatten(ts) ==
    \* the template: the pieces one after another
    IF ts = << >> THEN << >> ELSE Head(ts) \o Flatten(Tail(ts))

RECURSIVE SeqsUpTo(_, _)
SeqsUpTo(S, n) ==
    \* the sequences of at most n elements of S
    IF n = 0 THEN { << >> }
    ELSE LET shorter == SeqsUpTo(S, n - 1)
         IN  shorter \cup { Append(q, x) : q \in shorter, x \in S }

Args ==
    { IntVal(3), StrVal(<<"x">>) }

WithProperties(m, props) ==
    [m EXCEPT !.properties = props]

FmtMessages ==
    \* a message with a format and a number property, and one with a text
    \* property
    { WithProperties(Msg(debug, <<"n","=","%","d">>, << IntVal(3) >>),
                     (<<"k">> :> IntVal(45))),
      WithProperties(Msg(info, << >>, << StrVal(<<"x">>) >>),
                     (<<"k">> :> StrVal(<<"v">>))) }

TakeTemplate(ts, m) ==
    \* a template to compile, and a message to run it on
    /\ f_pc = "idle"
    /\ f_tokens' = ts
    /\ f_msg' = m
    /\ f_res' = ExtractErr("", -1)
    /\ f_out' = << >>
    /\ f_pc' = "taken"
    /\ UNCHANGED << appenderVars, poolVars, mgrVars, outVars, testVars >>

Compile ==
    \* fs, err := extract(format)
    /\ f_pc = "taken"
    /\ f_res' = extract(Flatten(f_tokens))
    /\ f_pc' = IF f_res'.ok THEN "compiled" ELSE "failed"
    /\ UNCHANGED << appenderVars, poolVars, mgrVars, outVars, testVars, f_tokens, f_msg, f_out >>

RunFormatters ==
    \* for _, f := range formatters { f.Format(m) }
    /\ f_pc = "compiled"
    /\ f_out' = Render(f_res.fs, f_msg)
    /\ f_pc' = "rendered"
    /\ UNCHANGED << appenderVars, poolVars, mgrVars, outVars, testVars, f_tokens, f_msg, f_res >>

(***************************************************************************)
(* SpecFmt: templates of up to MaxPieces pieces compiled and run, and the  *)
(* message formatter run on messages of up to MaxArgs arguments.           *)
(***************************************************************************)
NextFmt ==
    \/ \E ts \in SeqsUpTo(Pieces, MaxPieces), m \in FmtMessages : TakeTemplate(ts, m)
    \/ \E args \in SeqsUpTo(Args, MaxArgs) :
           TakeTemplate(<< <<"%","m">> >>, Msg(info, << >>, args))
    \/ Compile
    \/ RunFormatters

SpecFmt ==
    InitPkg /\ [][NextFmt]_vars

(***************************************************************************)
(* SpecFlush: one application goroutine that only appends, the flusher,    *)
(* and the clock.  The flusher goroutine and a call in progress are        *)
(* scheduled fairly: a goroutine that can take a step does so in the end.  *)
(* The application is free to stop calling.                                *)
(***************************************************************************)
AppendStep(t) ==
    \* a step of an Append call in progress
    \/ AppendFilter(t)
    \/ AppendFormat(t)
    \/ WriteLock(t)
    \/ WriteCheck(t)
    \/ RotateCheck(t)
    \/ CloseCheck(t)
    \/ CloseFlush(t)
    \/ CloseFlushReset(t)
    \/ CloseFile(t)
    \/ CloseNil(t)
    \/ RotateCreate(t)
    \/ WriteBuffered(t)

FlusherStep ==
    \* a step of the flusher goroutine
    \/ FlusherTick
    \/ FlusherCheck
    \/ FlusherFlush
    \/ FlusherFlushReset
    \/ FlusherSync

NextFlush ==
    \/ \E t \in SeqThreads, m \in Messages : AppendCall(t, "rolling", m)
    \/ \E t \in SeqThreads : AppendStep(t)
    \/ FlusherStep
    \/ ClockTick

SpecFlush ==
    /\ Init
    /\ [][NextFlush]_vars
    /\ WF_vars(FlusherStep)
    /\ \A t \in SeqThreads : WF_vars(AppendStep(t))

(***************************************************************************)
(* SpecConc: NumThreads application goroutines appending to one rolling    *)
(* file appender, its flusher, the clock, and file creations that may      *)
(* fail.  Every goroutine that can take a step does so in the end, and a  *)
(* goroutine waiting in a.mu.Lock() gets the mutex in the end although     *)
(* others take it in between (sync.Mutex hands a starving waiter the       *)
(* lock).                                                                  *)
(***************************************************************************)
NextConc ==
    \/ \E t \in Threads, m \in Messages : AppendCall(t, "rolling", m)
    \/ \E t \in Threads : AppendStep(t)
    \/ FlusherStep
    \/ ClockTick

SpecConc ==
    /\ Init
    /\ [][NextConc]_vars
    /\ WF_vars(FlusherStep)
    /\ SF_vars(FlusherTick)
    /\ \A t \in Threads : WF_vars(AppendStep(t)) /\ SF_vars(WriteLock(t))

(***************************************************************************)
(* SpecSwap: NumThreads application goroutines calling SetFormat and       *)
(* Append on the same appenders.  SetFormat is taken statement by          *)
(* statement, since here another goroutine can run between its statements. *)
(***************************************************************************)
SetFormatCall(t, a, format) ==
    \* f, err := extract(format); if err != nil { return err }
    /\ CanCall(t)
    /\ ops' = ops + 1
    /\ IF extract(format).ok
       THEN /\ Goto(t, "sfm_store")
            /\ loc' = [loc EXCEPT ![t] = [LocInit EXCEPT !.a = a, !.names = << format >>]]
            /\ UNCHANGED hist
       ELSE Return(t, Done("SetFormat", a, TRUE, FALSE))
    /\ UNCHANGED << cfgVars, fileVars, a_max, pkgVars, a_mu, now, consoleVars, flusherVars,
                    accepted, ioError, panicked >>

SetFormatStore(t) ==
    \* a.formatters = f; return nil
    /\ At(t, "sfm_store")
    /\ a_formatters' = [a_formatters EXCEPT ![loc[t].a] = extract(loc[t].names[1]).fs]
    /\ Return(t, Done("SetFormat", loc[t].a, FALSE, FALSE))
    /\ UNCHANGED << a_filters, fileVars, a_max, pkgVars, a_mu, now, consoleVars, flusherVars,
                    accepted, ops, ioError, panicked >>

Storing(a) ==
    \* some goroutine is about to assign a.formatters
    \E u \in Threads : pc[u] = "sfm_store" /\ loc[u].a = a

AppendFormatRacing(t) ==
    \* for _, f := range a.formatters, read while another goroutine assigns
    \* the slice: the three words of the slice are read one by one, and a
    \* data pointer of one slice with the length of the other runs off the
    \* end of the array
    /\ At(t, "ap_format")
    /\ Storing(loc[t].a)
    /\ Panic("Append")

NextSwap ==
    \/ \E t \in Threads, a \in Appenders, f \in Templates : SetFormatCall(t, a, f)
    \/ \E t \in Threads : SetFormatStore(t)
    \/ \E t \in Threads, a \in Appenders, m \in Messages : AppendCall(t, a, m)
    \/ \E t \in Threads : AppendStep(t)
    \/ \E t \in Threads : AppendFormatRacing(t)
    \/ \E t \in Threads : ConsoleLock(t)
    \/ \E t \in Threads : ConsoleWrite(t)

SpecSwap ==
    InitPkg /\ [][NextSwap]_vars

(***************************************************************************)
(* logManager.output statement by statement, called by NumThreads          *)
(* goroutines at once: getMessage, the loop over the appenders, each       *)
(* Append from its call to its return, putMessage.  Messages have an       *)
(* identity here, the number of their allocation.                          *)
(***************************************************************************)
AppenderLists ==
    { << >>, << "ConsoleAppender" >>, << "ConsoleAppender", "A" >> }

PutBeforeLoop(as) ==
    \* an output that gives the message back before the appenders have it
    1

PutPoint(as) ==
    \* putMessage(msg) follows the loop over the appenders
    Len(as) + 1

OutGet(t, as, s) ==
    \* the manager level test; msg := getMessage()
    /\ o_calls[t].pc = "idle"
    /\ o_started < MaxCalls
    /\ o_started' = o_started + 1
    /\ IF ~ManagerAdmits(m_level, s)
       THEN UNCHANGED << o_calls, o_chan, o_made >>
       ELSE IF o_chan # << >>
       THEN /\ o_calls' = [o_calls EXCEPT ![t] =
                   [pc |-> "loop", msg |-> Head(o_chan), as |-> as, idx |-> 1,
                    put |-> FALSE]]
            /\ o_chan' = Tail(o_chan)
            /\ UNCHANGED o_made
       ELSE /\ o_calls' = [o_calls EXCEPT ![t] =
                   [pc |-> "loop", msg |-> o_made + 1, as |-> as, idx |-> 1,
                    put |-> FALSE]]
            /\ o_made' = o_made + 1
            /\ UNCHANGED o_chan
    /\ UNCHANGED << appenderVars, poolVars, mgrVars, fmtVars, testVars >>

OutAppendCall(t) ==
    \* a.Append(msg) is called
    /\ o_calls[t].pc = "loop"
    /\ o_calls[t].idx <= Len(o_calls[t].as)
    /\ o_calls[t].put \/ o_calls[t].idx # PutPoint(o_calls[t].as)
    /\ o_calls' = [o_calls EXCEPT ![t].pc = "in_append"]
    /\ UNCHANGED << appenderVars, poolVars, mgrVars, fmtVars, testVars, o_chan, o_made, o_started >>

OutAppendReturn(t) ==
    \* a.Append(msg) returns
    /\ o_calls[t].pc = "in_append"
    /\ o_calls' = [o_calls EXCEPT ![t].pc = "loop", ![t].idx = @ + 1]
    /\ UNCHANGED << appenderVars, poolVars, mgrVars, fmtVars, testVars, o_chan, o_made, o_started >>

OutPut(t, l) ==
    \* putMessage(msg), the buffer of msg holding l bytes
    /\ o_calls[t].pc = "loop"
    /\ ~o_calls[t].put
    /\ o_calls[t].idx = PutPoint(o_calls[t].as)
    /\ o_calls[t].as = << >> => l = 0
    /\ o_chan' = IF l >= dropLen \/ Len(o_chan) >= poolCap
                 THEN o_chan
                 ELSE Append(o_chan, o_calls[t].msg)
    /\ o_calls' = [o_calls EXCEPT ![t].put = TRUE]
    /\ UNCHANGED << appenderVars, poolVars, mgrVars, fmtVars, testVars, o_made, o_started >>

OutReturn(t) ==
    \* output returns
    /\ o_calls[t].pc = "loop"
    /\ o_calls[t].put
    /\ o_calls[t].idx > Len(o_calls[t].as)
    /\ o_calls' = [o_calls EXCEPT ![t] = NoCall]
    /\ UNCHANGED << appenderVars, poolVars, mgrVars, fmtVars, testVars, o_chan, o_made, o_started >>

NextOut ==
    \/ \E t \in Threads, as \in AppenderLists, s \in LogSeverities : OutGet(t, as, s)
    \/ \E t \in Threads : OutAppendCall(t)
    \/ \E t \in Threads : OutAppendReturn(t)
    \/ \E t \in Threads, l \in BufLens : OutPut(t, l)
    \/ \E t \in Threads : OutReturn(t)

SpecOut ==
    InitPkg /\ [][NextOut]_vars

(***************************************************************************)
(* testAppender.  It embeds a console appender whose sink is a.buf; the    *)
(* formatters and filters of "console" stand for those of the embedded     *)
(* appender.                                                               *)
(***************************************************************************)
Rendering(m) ==
    \* what consoleAppender.Append writes for m: nothing when filtered out
    IF m.severity \in a_filters["console"]
    THEN Render(a_formatters["console"], m)
    ELSE << >>

TestAppend(m) ==
    \* a.logMessages = append(a.logMessages, n); a.consoleAppender.Append(m);
    \* s := string(a.buf.Bytes()); a.Messages = append(a.Messages, s)
    /\ ops < MaxOps
    /\ ops' = ops + 1
    /\ t_logMessages' = Append(t_logMessages, m)
    /\ t_buf' = t_buf \o Rendering(m)
    /\ t_Messages' = Append(t_Messages, t_buf')
    /\ UNCHANGED << cfgVars, fileVars, a_max, a_mu, now, consoleVars, pc, loc, flusherVars,
                    accepted, hist, ioError, panicked, poolVars, mgrVars, fmtVars,
                    outVars >>

TestReset ==
    \* Reset: empty logMessages, Messages and buf, the default format
    /\ ops < MaxOps
    /\ ops' = ops + 1
    /\ t_logMessages' = << >>
    /\ t_Messages' = << >>
    /\ t_buf' = << >>
    /\ a_formatters' = [a_formatters EXCEPT !["console"] = extract(defaultFormat).fs]
    /\ UNCHANGED << a_filters, fileVars, a_max, a_mu, now, consoleVars, pc, loc,
                    flusherVars, accepted, hist, ioError, panicked, poolVars, mgrVars,
                    fmtVars, outVars >>

NextTest ==
    \/ \E m \in Messages : TestAppend(m)
    \/ TestReset
    \/ \E t \in SeqThreads, f \in Templates : SetFormat(t, "console", f)

SpecTest ==
    InitPkg /\ [][NextTest]_vars

(***************************************************************************)
(* What the properties below speak of.                                     *)
(***************************************************************************)
RECURSIVE AcceptedFrom(_)
AcceptedFrom(k) ==
    \* the bytes Write accepted for the rolling file appender, from write k on
    IF k > Len(accepted) THEN << >>
    ELSE (IF accepted[k].a = "rolling"
          THEN Slice(Tagged(k, accepted[k].p), 0, accepted[k].n)
          ELSE << >>) \o AcceptedFrom(k + 1)

AcceptedBytes ==
    AcceptedFrom(1)

RECURSIVE ContentFrom(_)
ContentFrom(k) ==
    \* the content of the files created, each name at its first creation
    IF k > Len(created) THEN << >>
    ELSE (IF \E j \in 1 .. (k - 1) : created[j] = created[k]
          THEN << >>
          ELSE disk[created[k]]) \o ContentFrom(k + 1)

DiskContent ==
    ContentFrom(1)

RECURSIVE TotalFrom(_)
TotalFrom(k) ==
    IF k > Len(accepted) THEN 0
    ELSE (IF accepted[k].a = "rolling" THEN accepted[k].n ELSE 0) + TotalFrom(k + 1)

\* total_bytes: the bytes written through the rolling file appender
TotalBytes ==
    TotalFrom(1)

RECURSIVE ConsoleFrom(_)
ConsoleFrom(k) ==
    IF k > Len(accepted) THEN 0
    ELSE (IF accepted[k].a = "console" THEN Len(accepted[k].p) ELSE 0)
         + ConsoleFrom(k + 1)

\* the bytes of the records that went through the console appender's Write
TotalConsoleBytes ==
    ConsoleFrom(1)

RollingWrites ==
    { k \in DOMAIN accepted : accepted[k].a = "rolling" }

Idle ==
    \A t \in Threads : pc[t] = "idle"

LastOp ==
    IF Len(hist) = 0 THEN "" ELSE hist[Len(hist)].op

AppendsThenClose ==
    \* the application has made some Append calls and then one Close, which returned
    /\ Idle
    /\ Len(hist) > 1
    /\ LastOp = "Close"
    /\ \A k \in 1 .. (Len(hist) - 1) : hist[k].op = "Append"

FilesHoldingIn(wid, d, ws, hs) ==
    \* the names of the files that hold, on disk or in a buffer, a byte of write wid
    { n \in FileNames : \E k \in DOMAIN d[n] : d[n][k][1] = wid }
    \cup { hs[h].name : h \in { x \in DOMAIN ws :
                 \E k \in DOMAIN ws[x].buf : ws[x].buf[k][1] = wid } }

FilesHolding(wid) ==
    FilesHoldingIn(wid, disk, writers, handles)

\* C1: after Append calls followed by Close, with no I/O error, the files the
\* appender created hold, in creation order, exactly the bytes Write accepted,
\* in write order.
C1_NoBufferedDataLost ==
    (AppendsThenClose /\ ~ioError /\ panicked = "") => DiskContent = AcceptedBytes

\* a witness of the case of C1: two files created in the same second, the
\* second creation having emptied the first file, then Close
C1_SameSecondRotation ==
    /\ AppendsThenClose /\ ~ioError /\ panicked = ""
    /\ \E i, j \in DOMAIN created : i < j /\ created[i] = created[j]
    /\ Len(DiskContent) < Len(AcceptedBytes)

OneFilePerRecord ==
    \A wid \in RollingWrites : Cardinality(FilesHolding(wid)) <= 1

RotatedAndReady ==
    \* the state rotate leaves when it has done all of its work: the counter at 0,
    \* the writer on the newest file, that file and its buffer empty, every
    \* earlier file flushed and closed
    /\ a_bytes = 0
    /\ a_Writer = Len(handles)
    /\ a_file = a_Writer
    /\ ~handles[a_Writer].closed
    /\ writers[a_Writer].buf = << >>
    /\ disk[handles[a_Writer].name] = << >>
    /\ \A h \in 1 .. (Len(handles) - 1) :
           handles[h].closed /\ writers[h].buf = << >>

WritesAfterRotation(t) ==
    \* the step of Write that hands the bytes to the writer, in a call that rotated
    /\ pc[t] = "w_write"
    /\ loc[t].rot
    /\ Len(accepted') = Len(accepted) + 1

\* C2: when a Write rotates, the rotation (flush and close of the current file,
\* creation of the new file, counter reset to 0) is complete before the first
\* byte of the triggering write is written, the bytes of that write go to the
\* new file, and at no time are the bytes of one record in two different files.
C2_RotationBeforeWrite ==
    /\ [][\A t \in SeqThreads : WritesAfterRotation(t) =>
              /\ RotatedAndReady
              /\ FilesHoldingIn(Len(accepted'), disk', writers', handles')
                     = { handles[a_Writer].name }]_vars
    /\ []OneFilePerRecord

C2_Witness ==
    \* a record written after a rotation, the earlier file and the new one both
    \* holding records
    /\ Idle
    /\ rotations >= 1
    /\ LastOp = "Append"
    /\ \E n1, n2 \in FileNames : n1 # n2 /\ disk[n1] # << >> /\ disk[n2] # << >>

EveryRecordShorterThanMax ==
    \A k \in RollingWrites : Len(accepted[k].p) < a_max

\* C3 as stated: after any sequence of writes the appender has made exactly
\* floor(total_bytes / M) rotations.
C3_ExactlyFloorRotations ==
    (Idle /\ a_max > 0 /\ createFails = 0 /\ panicked = "")
        => rotations = TotalBytes \div a_max

\* C3: with M > 0 and every record shorter than M, the number of rotations is at
\* least floor(total_bytes / M) and at most twice that.
C3_RotationsBounded ==
    (Idle /\ a_max > 0 /\ EveryRecordShorterThanMax)
        => /\ rotations >= TotalBytes \div a_max
           /\ rotations <= 2 * (TotalBytes \div a_max)

C3_Witness ==
    \* more rotations than floor(total_bytes / M), every record shorter than M
    /\ Idle /\ a_max > 0 /\ EveryRecordShorterThanMax
    /\ TotalBytes \div a_max = 1
    /\ rotations = 2

WriteCompletes(t) ==
    \* the step on which a Write of thread t returns
    /\ pc[t] = "w_write"
    /\ pc'[t] = "idle"

\* C4 as stated: when a Write completes, the bytes-since-rotation counter does not
\* exceed M.
C4_BytesNeverExceedMax ==
    [][\A t \in SeqThreads : WriteCompletes(t) => a_bytes' <= a_max]_vars

\* C4: when a Write completes, the bytes-since-rotation counter is below M, or it
\* is the length of the record just written, which rotate put first in a new file.
C4_BytesBelowMaxOrOneRecord ==
    [][\A t \in SeqThreads : WriteCompletes(t) =>
           \/ a_bytes' < a_max
           \/ a_bytes' = Len(loc[t].p) /\ loc[t].rot]_vars

C4_Witness ==
    \* a Write has completed with the counter above M: a record longer than M
    /\ Idle /\ LastOp = "Append" /\ panicked = ""
    /\ a_max > 0
    /\ a_bytes > a_max

SecondCloseStep(t) ==
    \* a step of an application call to Close that finds the writer released
    /\ pc[t] = "cl_check"
    /\ loc[t].ret = "app"
    /\ a_Writer = 0
    /\ pc'[t] # pc[t]

\* C5: Close called again on a closed rolling file appender does not panic and
\* changes nothing: it returns at once, no file is flushed or closed a second
\* time, and no file handle is ever closed more than once.
C5_CloseTwice ==
    /\ [][\A t \in SeqThreads : SecondCloseStep(t) =>
              /\ pc'[t] = "idle"
              /\ panicked' = ""
              /\ UNCHANGED << fileVars, a_mu, ioError >>]_vars
    /\ [](\A h \in DOMAIN handles : handles[h].closes <= 1)
    /\ [](panicked # "Close")
    /\ []((Idle /\ LastOp = "Close") => (a_Writer = 0 /\ a_file = 0))

C5_Witness ==
    \* two calls to Close in a row have returned, the first having closed a file
    \* that held a record
    /\ Idle /\ panicked = ""
    /\ Len(hist) >= 3
    /\ hist[Len(hist)].op = "Close"
    /\ hist[Len(hist) - 1].op = "Close"
    /\ hist[Len(hist) - 2].op = "Append"
    /\ \E h \in DOMAIN handles : handles[h].closes = 1
    /\ DiskContent # << >>

CloseHasReturned ==
    \E k \in DOMAIN hist : hist[k].op = "Close" /\ hist[k].a = "rolling"

\* C6 as stated: once an application call to Close has returned, no later step
\* creates a file, installs a writer or delivers bytes to a file.
C6_ClosedIsTerminal ==
    [][CloseHasReturned =>
           /\ handles' = handles
           /\ a_Writer' = a_Writer
           /\ a_file' = a_file
           /\ disk' = disk]_vars

C6_Reopened ==
    \* after Close returned, an Append has put a record in a file created since
    /\ Idle /\ panicked = ""
    /\ \E k \in DOMAIN hist :
           /\ hist[k].op = "Close"
           /\ k < Len(hist)
           /\ hist[Len(hist)].op = "Append"
           /\ hist[Len(hist)].wrote
    /\ a_Writer # 0

\* C7 as stated: a failed file creation in rotate comes back to the caller of the
\* write as an error; the call does not crash.
C7_CreateFailureReturned ==
    (createFails > 0) => (panicked = "")

SetFormatFails ==
    \* the step on which a call to SetFormat returns an error
    /\ Len(hist') = Len(hist) + 1
    /\ hist'[Len(hist')].op = "SetFormat"
    /\ hist'[Len(hist')].err

CompiledFormats ==
    \* what extract gives for the formats that compile
    { extract(f).fs : f \in { g \in Templates \cup {defaultFormat} : extract(g).ok } }

\* C8: a SetFormat that fails to compile its template, on the console or the
\* rolling file appender, returns the error and leaves the formatter sequences
\* as they were; an appender's sequence is always one that compiled whole.
C8_FailedSetFormatKeepsFormatters ==
    /\ [][SetFormatFails => a_formatters' = a_formatters]_vars
    /\ [](\A a \in Appenders : a_formatters[a] \in CompiledFormats)

C8_Witness ==
    \* a format set, then a SetFormat that failed, then an Append rendered with
    \* the format set first
    \E a \in Appenders, m \in Messages, f \in Templates :
        /\ extract(f).ok
        /\ hist = << Done("SetFormat", a, FALSE, FALSE),
                     Done("SetFormat", a, TRUE, FALSE),
                     Done("Append", a, FALSE, TRUE) >>
        /\ Len(accepted) = 1
        /\ accepted[1].p = Render(extract(f).fs, m)
        /\ accepted[1].p # Render(extract(defaultFormat).fs, m)

NamedSeverities(names) ==
    \* the severities whose name, in any letter case, is among names
    { s \in Severities : \E i \in DOMAIN names : ToUpper(names[i]) = severityName[s + 1] }

\* C9 as stated: Append writes nothing and leaves the byte counter alone when the
\* record's severity is not in the filter set, goes on to write when it is, and
\* after SetFilters(names...) the admitted set is exactly the named severities.
C9_FiltersExactlyNamed ==
    [][\A t \in SeqThreads :
          /\ (pc[t] = "ap_filter" /\ pc'[t] # pc[t]) =>
                 IF loc[t].m.severity \in a_filters[loc[t].a]
                 THEN pc'[t] = "ap_format"
                 ELSE /\ pc'[t] = "idle"
                      /\ UNCHANGED << out, disk, writers, a_bytes, accepted >>
          /\ (pc[t] = "sf_add" /\ pc'[t] = "idle") =>
                 a_filters'[loc[t].a] = NamedSeverities(loc[t].names)]_vars

C9_UnnamedSeverityWritten ==
    \* after SetFilters("warning") a DEBUG record has been written
    \E a \in Appenders :
        /\ Len(hist) >= 2
        /\ hist[Len(hist) - 1] = Done("SetFilters", a, FALSE, FALSE)
        /\ hist[Len(hist)] = Done("Append", a, FALSE, TRUE)
        /\ a_filters[a] = {debug}
        /\ accepted[Len(accepted)].a = a

RecordStarts ==
    { i \in DOMAIN out : out[i][2] = 1 }

WholeRecords ==
    \* out is whole records one after another, the last one perhaps still being
    \* written: after byte k of a write comes its byte k+1, and after its last
    \* byte the first byte of a write; no write is there twice
    /\ \A i, j \in RecordStarts : out[i][1] = out[j][1] => i = j
    /\ \A i \in DOMAIN out :
        LET w == out[i][1]
            k == out[i][2]
        IN  /\ i = 1 => k = 1
            /\ i < Len(out) =>
                   IF k < Len(accepted[w].p)
                   THEN out[i + 1] = << w, k + 1 >>
                   ELSE out[i + 1][2] = 1

\* C10: with goroutines calling Append on one console appender at the same time,
\* the bytes of each record reach the stream as one contiguous block: the
\* stream is a concatenation of whole records, never fragments interleaved.
C10_ConsoleRecordsContiguous ==
    [](WholeRecords /\ (Idle => Len(out) = TotalConsoleBytes))

C10_Witness ==
    \* one goroutine is half way through its record while another, its record
    \* rendered, waits for the lock; a whole record is already out
    \E t1, t2 \in Threads :
        /\ t1 # t2
        /\ pc[t1] = "cw_write" /\ loc[t1].off > 0
        /\ pc[t2] = "cw_lock"
        /\ Len(out) > Len(loc[t1].p)

GetStep ==
    held' = held + 1

PutStep ==
    held' = held - 1

\* C11: the pool never holds more than 50 messages; getMessage and putMessage
\* can always go on; getMessage takes a message from the pool, its buffer reset,
\* or makes a new one when the pool is empty; putMessage discards a message
\* whose buffer holds 250 bytes or more, drops a message when the pool is full,
\* and otherwise adds it to the pool.
C11_PoolBoundedNeverBlocks ==
    /\ [](PoolLen(pool) <= poolCap)
    /\ [](got.len = 0)
    /\ [][GetStep =>
              IF PoolLen(pool) = 0
              THEN pool' = pool /\ ~got'.pooled
              ELSE PoolLen(pool') = PoolLen(pool) - 1 /\ got'.pooled]_vars
    /\ [][PutStep =>
              LET l == lastPut'.len
              IN  /\ l >= 250 => (pool' = pool /\ lastPut'.outcome = "discarded")
                  /\ (l < 250 /\ PoolLen(pool) = 50) =>
                         (pool' = pool /\ lastPut'.outcome = "dropped")
                  /\ (l < 250 /\ PoolLen(pool) < 50) =>
                         /\ PoolLen(pool') = PoolLen(pool) + 1
                         /\ CopiesIn(l, pool') = CopiesIn(l, pool) + 1
                         /\ lastPut'.outcome = "pooled"]_vars
    /\ []((held < MaxHeld) => ENABLED GetMessage)
    /\ []((held > 0) => ENABLED PutMessage)

C11_Witness ==
    \* the pool is full, a message that would have been pooled has just been
    \* dropped, and the last getMessage took its message from the pool
    /\ PoolLen(pool) = poolCap
    /\ lastPut = [len |-> 249, outcome |-> "dropped"]
    /\ got.pooled

\* C12: a record of severity s logged by Debug, Info, Warn or Error (or the
\* f-variant) through a logger of level L while the manager level is G goes to
\* the logger's appenders, each once and in order, if and only if s >= L and
\* s >= G; otherwise no appender is called.
C12_DispatchedIffAtOrAboveLevels ==
    (lastCall.op = "Log") =>
        events = IF lastCall.s >= l_level /\ lastCall.s >= m_level
                 THEN [i \in DOMAIN l_a |-> Event("Append", l_a[i], lastCall.s)]
                 ELSE << >>

C12_Witness ==
    \* a record whose severity equals the manager level, above debug, was dispatched
    /\ lastCall.op = "Log"
    /\ lastCall.s = m_level
    /\ m_level > debug
    /\ l_level < m_level
    /\ Len(events) = 2

CloseEvents ==
    { i \in DOMAIN events : events[i].e = "Close" }

\* C13: Fatal and Fatalf, whatever the levels, call Append with the FATAL record
\* on every appender of the logger, then Close on every appender registered
\* with the manager, then exit with code 1, which is the last thing they do.
C13_FatalDispatchesClosesExits ==
    (lastCall.op = "Fatal") =>
        LET n == Len(events)
        IN  /\ exited
            /\ n = Len(l_a) + Cardinality(DOMAIN m_appenders) + 1
            /\ events[n] = Event("exit", "", 1)
            /\ \A i \in 1 .. Len(l_a) : events[i] = Event("Append", l_a[i], fatal)
            /\ CloseEvents = (Len(l_a) + 1) .. (n - 1)
            /\ \A name \in DOMAIN m_appenders :
                   \E i \in CloseEvents : events[i].a = m_appenders[name]

C13_Witness ==
    \* Fatal on a logger of level fatal with two appenders, the manager at level
    \* fatal with two appenders registered
    /\ lastCall.op = "Fatal"
    /\ l_level = fatal /\ m_level = fatal
    /\ Len(l_a) = 2
    /\ { events[i].a : i \in CloseEvents } = {"ConsoleAppender", "A"}

\* C14: AddAppender with a name already registered returns the error "appender
\* already exist" and leaves the registry as it was: the name maps to the
\* appender registered before and the number of appenders is the same.
C14_DuplicateNameRejected ==
    [][(lastCall'.op = "AddAppender" /\ lastCall'.arg # << >>
            /\ lastCall'.arg[1] \in DOMAIN m_appenders /\ events' = << >>
            /\ lastCall' # lastCall) =>
           /\ lastCall'.err = "appender already exist"
           /\ m_appenders' = m_appenders]_vars

C14_Witness ==
    \* a different appender offered under a registered name: refused
    /\ lastCall = Call("AddAppender", << "a", "ConsoleAppender" >>,
                       "appender already exist")
    /\ m_appenders["a"] = "A"
    /\ Cardinality(DOMAIN m_appenders) = 2


(***************************************************************************)
(* Templates whose pieces are plain text, %%, and the severity tag.        *)
(***************************************************************************)
PlainPieces ==
    { <<"a">>, <<"}">>, <<"%","%">>, <<"%","s">> }

IsPlain(ts) ==
    \A k \in DOMAIN ts : ts[k] \in PlainPieces

PieceText(t) ==
    \* what a piece of literal text stands for: %% is one %
    IF t = <<"%","%">> THEN <<"%">> ELSE t

RECURSIVE PlainFormatters(_, _)
PlainFormatters(ts, p) ==
    \* the formatters a plain template stands for, p being the literal
    \* text gathered so far
    IF ts = << >> THEN (IF p = << >> THEN << >> ELSE << Fmt("literal", p) >>)
    ELSE IF Head(ts) = <<"%","s">>
         THEN (IF p = << >> THEN << >> ELSE << Fmt("literal", p) >>)
              \o << Fmt("severity", << >>) >> \o PlainFormatters(Tail(ts), << >>)
         ELSE PlainFormatters(Tail(ts), p \o PieceText(Head(ts)))

RECURSIVE PlainText(_, _)
PlainText(ts, m) ==
    \* the record a plain template stands for
    IF ts = << >> THEN << >>
    ELSE (IF Head(ts) = <<"%","s">> THEN severityName[m.severity + 1]
          ELSE PieceText(Head(ts))) \o PlainText(Tail(ts), m)

\* C15: every %% of a template, wherever it stands (the end included),
\* compiles into literal text and renders as exactly one %, and the
\* compilation does not fail because of it.
C15_DoublePercentIsOnePercent ==
    (f_pc \in {"compiled", "failed", "rendered"} /\ IsPlain(f_tokens))
        => /\ f_res.ok
           /\ f_res.fs = PlainFormatters(f_tokens, << >>)
           /\ f_pc = "rendered" => f_out = PlainText(f_tokens, f_msg)

C15_Witness ==
    /\ f_pc = "rendered"
    /\ f_tokens = << <<"%","s">>, <<"a">>, <<"%","%">> >>
    /\ f_res.fs = << Fmt("severity", << >>), Fmt("literal", <<"a","%">>) >>
    /\ f_out = severityName[f_msg.severity + 1] \o <<"a","%">>

(***************************************************************************)
(* Templates that are plain up to a % no tag follows.                      *)
(***************************************************************************)
NoTagAt(ts, k) ==
    \* piece k of ts is a % that no alias follows
    /\ k \in DOMAIN ts
    /\ IsPlain(SubSeq(ts, 1, k - 1))
    /\ \/ ts[k] = <<"%","h">>
       \/ /\ ts[k] = <<"%">>
          /\ k < Len(ts)
          /\ ts[k + 1] \in { <<"a">>, <<"}">>, <<"{","k","}">>, <<"{","z">> }

PercentOffset(ts, k) ==
    \* the index in the template of the % that piece k starts with
    Len(Flatten(SubSeq(ts, 1, k - 1)))

Compiled ==
    f_pc \in {"compiled", "failed", "rendered"}

\* C16 as worded: when no tag alias matches after a %, compiling fails with
\* an "invalid syntax" error whose position is the index immediately after
\* that %.
C16_PositionAfterPercent ==
    \A k \in DOMAIN f_tokens :
        (Compiled /\ NoTagAt(f_tokens, k))
            => /\ ~f_res.ok
               /\ f_res.err = "invalid syntax"
               /\ f_res.pos = PercentOffset(f_tokens, k) + 1

\* C16: when no tag alias matches after a %, compiling fails, returns no
\* formatters, and the "invalid syntax" error carries the index of that %
\* itself.
C16_PositionOfPercent ==
    \A k \in DOMAIN f_tokens :
        (Compiled /\ NoTagAt(f_tokens, k))
            => /\ f_pc = "failed"
               /\ ~f_res.ok
               /\ f_res.fs = << >>
               /\ f_res.err = "invalid syntax"
               /\ f_res.pos = PercentOffset(f_tokens, k)

C16_Witness ==
    /\ f_pc = "failed"
    /\ f_tokens = << <<"a">>, <<"%","%">>, <<"%","h">> >>
    /\ f_res = ExtractErr("invalid syntax", 3)

(***************************************************************************)
(* Templates that are plain up to a tag followed by a brace never closed.  *)
(***************************************************************************)
TagPieces ==
    { <<"%","s">>, <<"%","m">>, <<"%","p">>,
      <<"%","p","r","o","p","e","r","t","y">> }

UnclosedAt(ts, k) ==
    \* piece k of ts is a tag, piece k + 1 opens a brace, and no later
    \* piece holds a closing brace
    /\ k \in DOMAIN ts
    /\ k < Len(ts)
    /\ IsPlain(SubSeq(ts, 1, k - 1))
    /\ ts[k] \in TagPieces
    /\ ts[k + 1] = <<"{","z">>
    /\ \A j \in (k + 2) .. Len(ts) : "}" \notin Range(ts[j])

\* C17: a matched tag immediately followed by { with no } anywhere after it
\* makes the compilation fail: no formatters are returned and the error is
\* "unclosed parameter brace" at the index of that {.
C17_UnclosedBraceReported ==
    \A k \in DOMAIN f_tokens :
        (Compiled /\ UnclosedAt(f_tokens, k))
            => /\ f_pc = "failed"
               /\ ~f_res.ok
               /\ f_res.fs = << >>
               /\ f_res.err = "invalid syntax - unclosed parameter brace"
               /\ f_res.pos = Len(Flatten(SubSeq(f_tokens, 1, k)))

C17_Witness ==
    /\ f_pc = "failed"
    /\ f_tokens = << <<"a">>, <<"%","p","r","o","p","e","r","t","y">>, <<"{","z">> >>
    /\ f_res = ExtractErr("invalid syntax - unclosed parameter brace", 10)

(***************************************************************************)
(* Templates that are plain up to a %JSON tag and plain after it.          *)
(***************************************************************************)
JSONAt(ts, k) ==
    /\ k \in DOMAIN ts
    /\ ts[k] = <<"%","J","S","O","N">>
    /\ IsPlain(SubSeq(ts, 1, k - 1))
    /\ IsPlain(SubSeq(ts, k + 1, Len(ts)))

\* C18: a template with the %JSON tag compiles without error, and the
\* formatters returned contain the JSON formatter.
C18_JSONTagCompiles ==
    \A k \in DOMAIN f_tokens :
        (Compiled /\ JSONAt(f_tokens, k))
            => /\ f_res.ok
               /\ \E j \in DOMAIN f_res.fs : f_res.fs[j].kind = "json"

C18_JSONTagRejected ==
    /\ f_pc = "failed"
    /\ f_tokens = << <<"%","J","S","O","N">> >>
    /\ f_res = ExtractErr("invalid syntax", 0)

(***************************************************************************)
(* Templates of plain pieces and property tags with a closed parameter.    *)
(***************************************************************************)
PropertyTags ==
    { <<"%","p">>, <<"%","p","r","o","p","e","r","t","y">> }

ParameterLen(ts) ==
    \* the number of pieces the parameter after a property tag takes, 0 when
    \* ts does not start with a closed parameter
    IF Len(ts) >= 1 /\ ts[1] = <<"{","k","}">> THEN 1
    ELSE IF Len(ts) >= 2 /\ ts[1] = <<"{","z">> /\ ts[2] = <<"}">> THEN 2
    ELSE 0

ParameterName(ts) ==
    IF ParameterLen(ts) = 1 THEN <<"k">> ELSE <<"z">>

PropertyText(m, name) ==
    \* the string form of the property, nothing when the message has none
    IF name \in DOMAIN m.properties THEN ValStr(m.properties[name]) ELSE << >>

RECURSIVE HasProperties(_)
HasProperties(ts) ==
    \* ts is made of plain pieces and property tags with their parameter
    \/ ts = << >>
    \/ /\ ts # << >>
       /\ \/ Head(ts) \in PlainPieces /\ HasProperties(Tail(ts))
          \/ /\ Head(ts) \in PropertyTags
             /\ ParameterLen(Tail(ts)) > 0
             /\ HasProperties(SubSeq(ts, 2 + ParameterLen(Tail(ts)), Len(ts)))

RECURSIVE PropertiesText(_, _)
PropertiesText(ts, m) ==
    \* the record such a template stands for
    IF ts = << >> THEN << >>
    ELSE IF Head(ts) \in PropertyTags
         THEN PropertyText(m, ParameterName(Tail(ts)))
              \o PropertiesText(SubSeq(ts, 2 + ParameterLen(Tail(ts)), Len(ts)), m)
         ELSE PlainText(<< Head(ts) >>, m) \o PropertiesText(Tail(ts), m)

UsesProperty(ts) ==
    \E k \in DOMAIN ts : ts[k] \in PropertyTags

\* C19: %p{name} and %property{name} compile for any name, and emit the
\* string form of the message's property of that name when it has one and
\* nothing when it has none.
C19_PropertyTagEmitsValue ==
    (Compiled /\ UsesProperty(f_tokens) /\ HasProperties(f_tokens))
        => /\ f_res.ok
           /\ f_pc = "rendered" => f_out = PropertiesText(f_tokens, f_msg)

C19_Witness ==
    /\ f_pc = "rendered"
    /\ f_tokens = << <<"a">>, <<"%","p">>, <<"{","k","}">> >>
    /\ f_msg.properties[<<"k">>] = IntVal(45)
    /\ f_out = <<"a","4","5">>

C19_WitnessAbsent ==
    /\ f_pc = "rendered"
    /\ f_tokens = << <<"%","p","r","o","p","e","r","t","y">>, <<"{","z">>, <<"}">> >>
    /\ <<"z">> \notin DOMAIN f_msg.properties
    /\ f_out = << >>

(***************************************************************************)
(* The message formatter on a message without a format.                    *)
(***************************************************************************)
RECURSIVE Concatenated(_)
Concatenated(args) ==
    \* the string forms of the arguments one after another
    IF args = << >> THEN << >>
    ELSE ValStr(Head(args)) \o Concatenated(Tail(args))

\* C20: for a message whose format is empty the message formatter emits the
\* string forms of the arguments concatenated with no separator, whatever
\* the arguments are, two adjacent non-string arguments included.
C20_ArgsConcatenated ==
    (f_pc = "rendered" /\ f_tokens = << <<"%","m">> >> /\ f_msg.format = << >>)
        => f_out = Concatenated(f_msg.args)

C20_SpaceBetweenNumbers ==
    /\ f_pc = "rendered"
    /\ f_tokens = << <<"%","m">> >>
    /\ f_msg.format = << >>
    /\ f_msg.args = << IntVal(3), IntVal(3) >>
    /\ f_out = <<"3"," ","3">>

(***************************************************************************)
(* The bytes of write number wid: in a buffer, and in a file.              *)
(***************************************************************************)
InBuffer(wid) ==
    \E w \in DOMAIN writers :
        \E k \in DOMAIN writers[w].buf : writers[w].buf[k][1] = wid

InFile(wid) ==
    \* every byte the write accepted is in the file of the writer it went to
    /\ wid \in DOMAIN accepted
    /\ \E h \in DOMAIN handles :
           \A k \in 1 .. accepted[wid].n :
               \E j \in DOMAIN disk[handles[h].name] :
                   disk[handles[h].name][j] = <<wid, k>>

\* C21: while the appender is open, the bytes of every write that are held
\* in the buffer reach the file in the end, whether or not the application
\* writes again, and without any Close by the application.
C21_BufferedBytesReachFile ==
    \A wid \in 1 .. (MaxOps + 1) : InBuffer(wid) ~> InFile(wid)

C21_Witness ==
    /\ Len(accepted) = 1
    /\ accepted[1].n > 0
    /\ rotations = 0
    /\ fpc = "sync"
    /\ writers[1].buf = << >>
    /\ InFile(1)

\* C22: with any number of goroutines appending to one rolling file
\* appender and its flusher running, rotations included, every Append call
\* returns in the end and the lock is released in the end.
C22_EveryAppendReturns ==
    /\ \A t \in Threads : (pc[t] # "idle") ~> (pc[t] = "idle")
    /\ (a_mu # 0) ~> (a_mu = 0)

C22_AppendPanicsHoldingLock ==
    \E t \in Threads :
        /\ panicked = "Write"
        /\ pc[t] = "w_write"
        /\ a_mu = t
        /\ a_Writer = 0
        /\ createFails > 0

(***************************************************************************)
(* The sections of flusher and Write between Lock and Unlock.              *)
(***************************************************************************)
FlusherSection ==
    fpc \in {"check", "flush", "flush2", "sync"}

WriteSection(t) ==
    pc[t] \in {"w_check", "rot_check", "cl_check", "cl_flush", "cl_flush2",
               "cl_fclose", "cl_nil", "rot_create", "w_write"}

MidRotation ==
    \* the writer is over a closed file, or writer and file differ
    \/ a_Writer # a_file
    \/ a_Writer # 0 /\ handles[a_Writer].closed

\* C23: the flusher's flush and sync and the write path's write or rotate
\* run only with the appender's mutex held and never at the same time, and
\* the flusher never finds the writer and the file in the middle of a
\* rotation.
C23_FlushExcludesWriteAndRotate ==
    /\ FlusherSection => a_mu = -1
    /\ \A t \in Threads : WriteSection(t) => a_mu = t
    /\ \A t \in Threads : ~(FlusherSection /\ WriteSection(t))
    /\ \A t, u \in Threads : (WriteSection(t) /\ WriteSection(u)) => t = u
    /\ FlusherSection => ~MidRotation

C23_Witness ==
    /\ fpc = "wait"
    /\ a_mu # 0
    /\ MidRotation
    /\ \E t \in Threads : pc[t] = "cl_nil" /\ a_mu = t
    /\ \E u \in Threads : pc[u] = "w_lock"

(***************************************************************************)
(* Who holds the mutex of an appender.                                     *)
(***************************************************************************)
Holds(t, a) ==
    IF a = "rolling" THEN a_mu = t ELSE c_mu = t

Leaves(t, label) ==
    \* goroutine t executes the statement at label
    pc[t] = label /\ pc'[t] # label

\* C24: SetFormat assigns the formatters, and Append reads them, only while
\* the goroutine holds the mutex of the appender, under every interleaving
\* of SetFormat and Append calls on the same appender.
C24_FormattersOnlyUnderLock ==
    [][\A t \in Threads :
           /\ Leaves(t, "sfm_store") => Holds(t, loc[t].a)
           /\ Leaves(t, "ap_format") => Holds(t, loc[t].a)]_vars

C24_UnlockedReadDuringStore ==
    \E t, u \in Threads :
        /\ pc[t] = "sfm_store"
        /\ pc[u] = "ap_format"
        /\ loc[t].a = loc[u].a
        /\ ~Holds(t, loc[t].a)
        /\ ~Holds(u, loc[u].a)

\* C25: however a Close called by the application and a tick of the flusher
\* interleave, the flusher never calls Flush on a nil writer and never
\* flushes or syncs a file that Close has closed.
C25_FlusherNeverUsesClosedFile ==
    /\ panicked # "flusher"
    /\ fpc \in {"flush", "flush2"} => (a_Writer # 0 /\ ~handles[a_Writer].closed)
    /\ fpc = "sync" => (a_file # 0 /\ ~handles[a_file].closed)

C25_FlushOnNilWriter ==
    /\ panicked = "flusher"
    /\ fpc = "flush"
    /\ a_Writer = 0
    /\ createFails = 0
    /\ hist # << >>
    /\ hist[Len(hist)].op = "Close"

(***************************************************************************)
(* The messages a call of output has in hand.                              *)
(***************************************************************************)
InAppend(t) ==
    \* an appender is rendering or writing the message of call t
    o_calls[t].pc = "in_append"

LoopPending(t) ==
    \* some Append of call t has not returned yet
    /\ o_calls[t].pc \in {"loop", "in_append"}
    /\ \/ InAppend(t)
       \/ o_calls[t].idx <= Len(o_calls[t].as)

\* C26: a message is given back to the pool only after the Append of every
\* appender of the call has returned; while an appender is rendering or
\* writing a message, the message is not in the pool and no other call of
\* output has it (a call that has put its message back has it no more).
C26_PooledOnlyAfterAppends ==
    \A t \in Threads :
        /\ LoopPending(t) => /\ ~o_calls[t].put
                             /\ o_calls[t].msg \notin Range(o_chan)
        /\ InAppend(t) => \A u \in Threads \ {t} :
                              o_calls[u].put \/ o_calls[u].msg # o_calls[t].msg

C26_Witness ==
    \E t, u \in Threads :
        /\ t # u
        /\ InAppend(t)
        /\ o_calls[t].idx = 2
        /\ o_calls[t].msg = 1
        /\ o_made = 2
        /\ o_calls[u].msg = 2
        /\ o_calls[u].put
        /\ o_chan = << 2 >>

(***************************************************************************)
(* Templates that are plain up to a tag, with plain text after it.         *)
(***************************************************************************)
AliasOrder ==
    \* the aliases in the order extract tries them: the registry in its
    \* order, the names of each formatter in theirs
    << [kind |-> "date",     alias |-> <<"d","a","t","e">>],
       [kind |-> "date",     alias |-> <<"d">>],
       [kind |-> "severity", alias |-> <<"s","e","v","e","r","i","t","y">>],
       [kind |-> "severity", alias |-> <<"s">>],
       [kind |-> "logger",   alias |-> <<"l","o","g","g","e","r">>],
       [kind |-> "file",     alias |-> <<"f","i","l","e">>],
       [kind |-> "file",     alias |-> <<"f">>],
       [kind |-> "line",     alias |-> <<"l","i","n","e">>],
       [kind |-> "context",  alias |-> <<"c","o","n","t","e","x","t">>],
       [kind |-> "context",  alias |-> <<"c">>],
       [kind |-> "message",  alias |-> <<"m","e","s","s","a","g","e">>],
       [kind |-> "message",  alias |-> <<"m">>],
       [kind |-> "newline",  alias |-> <<"n","e","w","l","i","n","e">>],
       [kind |-> "newline",  alias |-> <<"n">>],
       [kind |-> "property", alias |-> <<"p","r","o","p","e","r","t","y">>],
       [kind |-> "property", alias |-> <<"p">>] >>

TextPieces ==
    { <<"a">>, <<"}">>, <<"e","v","e","r","e">>, <<"e","v","e","r","i","t","y">> }

TagAt(ts, k) ==
    \* piece k is the only tag of ts, after plain pieces and before text
    /\ k \in DOMAIN ts
    /\ IsPlain(SubSeq(ts, 1, k - 1))
    /\ ts[k] \in TagPieces
    /\ \A j \in (k + 1) .. Len(ts) : ts[j] \in TextPieces

AfterPercent(ts, k) ==
    \* the text that follows the % of piece k
    Tail(Flatten(SubSeq(ts, k, Len(ts))))

IsPrefix(a, text) ==
    Len(a) <= Len(text) /\ a = SubSeq(text, 1, Len(a))

FirstAlias(text) ==
    \* the place in AliasOrder of the first alias that text starts with
    CHOOSE n \in DOMAIN AliasOrder :
        /\ IsPrefix(AliasOrder[n].alias, text)
        /\ \A j \in 1 .. (n - 1) : ~IsPrefix(AliasOrder[j].alias, text)

TagFormatters(ts, k) ==
    \* the formatter of the first alias, and the rest of the text as literal
    LET text == AfterPercent(ts, k)
        e    == AliasOrder[FirstAlias(text)]
        rest == SubSeq(text, Len(e.alias) + 1, Len(text))
    IN  PlainFormatters(SubSeq(ts, 1, k - 1), << >>)
        \o << Fmt(e.kind, << >>) >>
        \o (IF rest = << >> THEN << >> ELSE << Fmt("literal", rest) >>)

\* C27: after an unescaped % extract takes the first alias, in the order of
\* the registry and of each formatter's names, that the text starts with,
\* consumes just that alias, and treats what follows as literal text:
\* %severe is the severity followed by "evere", %severity the severity
\* alone.
C27_FirstAliasInRegistryOrder ==
    \A k \in DOMAIN f_tokens :
        (Compiled /\ TagAt(f_tokens, k))
            => /\ f_res.ok
               /\ f_res.fs = TagFormatters(f_tokens, k)
               /\ f_pc = "rendered"
                      => f_out = Render(TagFormatters(f_tokens, k), f_msg)

C27_Witness ==
    /\ f_pc = "rendered"
    /\ f_tokens = << <<"%","s">>, <<"e","v","e","r","e">> >>
    /\ f_res.fs = << Fmt("severity", << >>), Fmt("literal", <<"e","v","e","r","e">>) >>
    /\ f_out = severityName[f_msg.severity + 1] \o <<"e","v","e","r","e">>

C27_WitnessWholeAlias ==
    /\ f_pc = "rendered"
    /\ f_tokens = << <<"%","s">>, <<"e","v","e","r","i","t","y">> >>
    /\ f_res.fs = << Fmt("severity", << >>) >>

\* C28: every file a rolling file appender creates, at construction and at
\* each rotation, has a name no file it created before has, so that
\* creating it never empties an earlier log file, also when two rotations
\* fall in the same second.
C28_FileNamesNeverRepeat ==
    \A i, j \in DOMAIN created : i # j => created[i] # created[j]

C28_SameSecondSameName ==
    \* the second rotation of the second reopens the file of the first and
    \* empties it: the first record is in no file and in no buffer
    /\ Len(created) = 3
    /\ created[2] = created[3]
    /\ rotations = 2
    /\ now < TicksPerSecond
    /\ createFails = 0
    /\ accepted # << >>
    /\ accepted[1].n > 0
    /\ ~InFile(1)
    /\ ~InBuffer(1)

\* C29: after k Append calls on a testAppender with no Reset in between,
\* Messages has k entries, and the entry of each call is the rendering of
\* that call's record alone, without the output of the records before it.
C29_MessageIsOneRecord ==
    [][Len(t_Messages') = Len(t_Messages) + 1
           => /\ Len(t_logMessages') = Len(t_Messages')
              /\ t_Messages'[Len(t_Messages')]
                     = Rendering(t_logMessages'[Len(t_Messages')])]_vars

C29_SecondEntryHoldsBoth ==
    /\ Len(t_Messages) = 2
    /\ Len(t_logMessages) = 2
    /\ t_Messages[1] = Rendering(t_logMessages[1])
    /\ t_Messages[1] # << >>
    /\ t_Messages[2] = Rendering(t_logMessages[1]) \o Rendering(t_logMessages[2])

(***************************************************************************)
(* The appenders registered with the manager.                              *)
(***************************************************************************)
Registered ==
    { m_appenders[n] : n \in DOMAIN m_appenders }

LoggerAppendersRegistered ==
    \* the logger in use dispatches to registered appenders only, and the
    \* Close of the manager reaches every appender that was given a record
    /\ \A i \in DOMAIN l_a : l_a[i] \in Registered
    /\ lastCall.op = "Fatal" =>
           \A i \in DOMAIN events :
               events[i].e = "Append" =>
                   \E j \in CloseEvents : j > i /\ events[j].a = events[i].a

RegistryKeeps ==
    \* what is registered stays registered, so that the loggers made earlier
    \* keep dispatching to registered appenders
    \A n \in DOMAIN m_appenders :
        n \in DOMAIN m_appenders' /\ m_appenders'[n] = m_appenders[n]

\* C30: after any sequence of AddAppender, New, SetAppenders and WithContext
\* calls every appender a logger dispatches to is registered in the
\* manager's appender map, so that the manager's Close closes every appender
\* that can have received records.
C30_LoggersUseRegisteredAppenders ==
    []LoggerAppendersRegistered /\ [][RegistryKeeps]_vars

C30_Witness ==
    /\ lastCall.op = "WithContext"
    /\ l_a = << "A", "ConsoleAppender" >>
    /\ Registered = {"A", "ConsoleAppender"}
    /\ panicked = ""
=============================================================================
